---- MODULE Spec2Model ----
(***************************************************************************)
(* A model of the mrl command line tool: the local RLM subcall server, the *)
(* RLM iteration loop with its code session, the tool-calling turn loops   *)
(* (agent loop and do loop), the custom tool executor with its size-capped *)
(* output buffers, and the bash authorization rules.                       *)
(*                                                                         *)
(* Each subsystem has its own variables, initial condition and actions and *)
(* its own specification; the variables of the other subsystems are parked *)
(* at fixed values while one subsystem runs.                               *)
(***************************************************************************)
EXTENDS Integers, Sequences, FiniteSets, TLC

(***************************************************************************)
(* Bounds of the model.                                                    *)
(***************************************************************************)
\* subcall requests that reach the server during one run
MaxRequests == 2
\* largest configured --max-depth explored (the smallest is -1)
MaxDepthCfg == 1
\* largest configured --max-subcalls explored (the smallest is -1)
MaxSubcallsCfg == 2
\* largest configured --max-iterations explored (the smallest is 0)
MaxIterationsCfg == 3
\* largest turn budget explored
MaxTurnsCfg == 2
\* most tool calls in one model response
MaxToolCalls == 2
\* largest max_output_bytes of a manifest entry explored (0: not set)
MaxOutputCfg == 2
\* longest argument of one Write
MaxWrite == 2
\* most bytes a process emits on one stream
MaxStream == 3
\* most values of one of --bash-allow, --bash-deny
MaxRules == 1
\* most custom tools of a tool manifest
MaxCustom == 2
\* most flags and manifest keys a command line and its manifest mention
MaxMentioned == 2
\* largest --max-turns of mrl do
MaxDoTurns == 1
\* most calls of the tasks_write tool
MaxTaskCalls == 2

VARIABLES
    \* ---- subcall server (localSubcallHandler, startLocalRLMSubcallServer)
    srv,          \* the subcall server: "init", "up", "failed", "closing",
                  \* "closed" ("off": no server in this run)
    maxDepth,     \* h.maxDepth (flags.maxDepth)
    maxSubcalls,  \* h.maxSubcalls (flags.maxSubcalls)
    counter,      \* *h.counter
    hmu,          \* holder of h.mu: 0 when free, else the request holding it
    hpc,          \* position of each request's ServeHTTP goroutine
    hreq,         \* the request each goroutine serves
    htmp,         \* the value of *h.counter read by line 450
    hcurrent,     \* the local variable current
    hresp,        \* the response of the subcall's model call
    hstatus,      \* HTTP status written to the response (0: none yet)
    subLLMCalls,  \* model calls issued by subcall handlers
    hout,         \* per request: the model called, the result returned
    usage,        \* rlmUsage.usage, the shared aggregate
    \* ---- RLM loop (runLocalRLMLoop)
    maxIterations, \* params.maxIterations (flags.maxIterations)
    rpc,          \* position of runLocalRLMLoop
    ri,           \* the loop variable i
    session,      \* the current session slot: 0 is nil, else a session
    sessionIndex, \* sessionIndex, sent to the session as SessionState.Index
    pending,      \* nextSession inside startSession (0: none)
    sessCloses,   \* per session started, in order: the number of Close calls
    recovered,    \* the local variable recovered
    iterOut,      \* iterOutput of the iteration being processed
    execLog,      \* the RunPython calls, as the code-execution side sees them
    trajectory,   \* trajectory
    feedback,     \* the feedback messages appended to the conversation
    answer,       \* answer ("" while unset)
    rllmCalls,    \* model calls issued by the loop
    rresult,      \* what runLocalRLMLoop returns
    \* ---- turn loops (runAgentLoop, runDoLoop)
    lkind,        \* "agent" (runAgentLoop) or "do" (runDoLoop)
    lmaxTurns,    \* maxTurns, the effective turn budget
    lrecord,      \* cfg.Output == outputFormatJSON || flags.trace
    lpc,          \* state of the turn loop
    lturn,        \* the loop variable turn
    lusage,       \* usage (sdk.AgentUsage)
    lsteps,       \* steps
    lastResp,     \* lastResp, as the number of the response (0: nil)
    lmessages,    \* messages appended to the input
    lresponses,   \* the model calls made and what each returned, in order
    ltoolRuns,    \* tool handler invocations made by ExecuteAll
    linvoked,     \* the handler invocations, in order, and whether each failed
    lresult,      \* what the loop hands to its caller
    \* ---- custom tool execution (customExecTool.handle, limitedBuffer)
    xentryMax,    \* entry.MaxOutputBytes of the manifest entry
    xpc,          \* position of handle: "init", "running", "done"
    xctx,         \* ctx: "active", "canceled" or "deadline"
    xproc,        \* the process: "none", "running", "exited", "killed", "failed"
    xexit,        \* exit status of a process that exited
    xbuf,         \* stdoutBuf and stderrBuf
    xwritten,     \* bytes handed to Write so far, per stream
    xlast,        \* the last call of Write: its argument, its result
    xres,         \* the execToolResult returned
    xrun,         \* the context of the run that called the tool
    \* ---- bash tool authorization (buildAgentLoopTools, parseBashRules)
    bflags,       \* flags.bashAllow, flags.bashDeny, flags.bashAllowAll
    bpc,          \* "init", "ready" (tools built) or "configError"
    bpack,        \* the options the bash tool pack was built with
    bdecision,    \* the last command the pack was asked about, its outcome
    \* ---- set-up of an agent loop run (runAgentLoop, buildAgentLoopTools)
    gflags,       \* the flags and the tool manifest of the run
    gpc,          \* position of runAgentLoop before its loop
    gdefs,        \* the tool definitions for the model, by name
    gregistry,    \* the registrations made in the tool registry, in order
    gerr,         \* the error runAgentLoop returned ("" if none)
    gcalls,       \* model calls made
    \* ---- the tool manifest of an agent loop run (applyToolManifest)
    mcli,         \* the flags as the command line left them, by flag name
    mchanged,     \* the flags set on the command line (flagset.Changed)
    manifest,     \* the tool manifest loaded from --tools-file
    mflags,       \* the flags after applyToolManifest
    \* ---- set-up of a run of mrl do (runDo)
    dflags,       \* the flags of mrl do and the values of the config
    dpc,          \* position of runDo
    dopts,        \* allow and allowAll the bash tool is built with
    derr,         \* the error runDo returned ("" if none)
    dcalls,       \* model calls made
    \* ---- the tasks_write tool (tasksState)
    tpath,        \* tasksState.outputPath
    tasks,        \* tasksState.tasks
    tfile,        \* the task list in the output file
    tcalls,       \* the arguments of the calls made, in order
    tres          \* what the last call returned

subOnly == <<srv, maxDepth, maxSubcalls, counter, hmu, hpc, hreq, htmp,
             hcurrent, hresp, hstatus, subLLMCalls, hout>>
subVars == <<subOnly, usage>>

rlmOnly == <<maxIterations, rpc, ri, session, sessionIndex, pending,
             sessCloses, recovered, iterOut, execLog, trajectory, feedback,
             answer, rllmCalls, rresult>>
rlmVars == <<rlmOnly, usage>>

loopVars == <<lkind, lmaxTurns, lrecord, lpc, lturn, lusage, lsteps, lastResp,
              lmessages, lresponses, ltoolRuns, linvoked, lresult>>

execVars == <<xentryMax, xpc, xctx, xproc, xexit, xbuf, xwritten, xlast, xres,
              xrun>>

authVars == <<bflags, bpc, bpack, bdecision>>

configVars == <<gflags, gpc, gdefs, gregistry, gerr, gcalls>>

manifestVars == <<mcli, mchanged, manifest, mflags>>

doVars == <<dflags, dpc, dopts, derr, dcalls>>

tasksVars == <<tpath, tasks, tfile, tcalls, tres>>

vars == <<subOnly, rlmOnly, usage, loopVars, execVars, authVars, configVars,
          manifestVars, doVars, tasksVars>>

(***************************************************************************)
(* Strings                                                                 *)
(***************************************************************************)
\* Strings are sequences of one-character strings.
IsSpace(ch) == ch = " "

RECURSIVE TrimLeft(_)
TrimLeft(s) ==
    IF s # <<>> /\ IsSpace(Head(s)) THEN TrimLeft(Tail(s)) ELSE s

RECURSIVE TrimRight(_)
TrimRight(s) ==
    IF s # <<>> /\ IsSpace(s[Len(s)])
    THEN TrimRight(SubSeq(s, 1, Len(s) - 1))
    ELSE s

\* strings.TrimSpace
TrimSpace(s) == TrimRight(TrimLeft(s))

\* strings.HasPrefix
HasPrefix(s, p) == Len(p) <= Len(s) /\ SubSeq(s, 1, Len(p)) = p

\* strings.TrimPrefix
TrimPrefix(s, p) == IF HasPrefix(s, p) THEN SubSeq(s, Len(p) + 1, Len(s)) ELSE s

(***************************************************************************)
(* Subcall authorization server                                            *)
(***************************************************************************)
Handlers == 1..MaxRequests

StatusOK == 200
StatusBadRequest == 400
StatusUnauthorized == 401
StatusMethodNotAllowed == 405
StatusConflict == 409
StatusBadGateway == 502

\* req.Model of a request: a nil pointer, or a string.
NoModel == [given |-> FALSE, text |-> <<>>]
GivenModel(text) == [given |-> TRUE, text |-> text]

\* h.defaultModel; runRLM refuses to start without a model.
DefaultModel == <<"d">>

\* The model named by the requests explored: none at the top level, a name
\* to be trimmed one level down, a blank name below that.
ModelAt(d) ==
    IF d <= 0 THEN NoModel
    ELSE IF d = 1 THEN GivenModel(<<" ", "m">>)
    ELSE GivenModel(<<" ">>)

\* The request a well-behaved session sends, at nesting level d.
\* The fields sess and cur are not part of the wire
\* format: sess is the index of the session whose code sent the request, cur
\* the index of the current session when the server checked it.
GoodRequest(d) ==
    [method |-> "POST", auth |-> "ok", body |-> "ok", prompt |-> "ok",
     depth |-> d, model |-> ModelAt(d), sess |-> 0, cur |-> 0]

NoRequest ==
    [method |-> "", auth |-> "", body |-> "", prompt |-> "", depth |-> 0,
     model |-> NoModel, sess |-> 0, cur |-> 0]

\* Requests explored: the well-formed ones at every depth from -1 to one past
\* the largest configured limit, one request per single fault, each at the
\* deepest level so that the order of the checks is visible, and two
\* requests with two faults.
Requests ==
    LET deep == MaxDepthCfg + 1
    IN  {GoodRequest(d) : d \in -1..deep}
        \cup {[GoodRequest(deep) EXCEPT !.method = "GET"],
              [GoodRequest(deep) EXCEPT !.auth = "none"],
              [GoodRequest(deep) EXCEPT !.auth = "badtoken"],
              [GoodRequest(deep) EXCEPT !.body = "undecodable"],
              [GoodRequest(deep) EXCEPT !.prompt = "blank"]}
        \cup {[GoodRequest(deep) EXCEPT !.method = "GET", !.auth = "none"],
              [GoodRequest(deep) EXCEPT !.auth = "none",
                                        !.body = "undecodable"]}

\* Usage of one model response (input, output, total tokens).
ZeroUsage == [input |-> 0, output |-> 0, total |-> 0]
RespUsage == [input |-> 1, output |-> 1, total |-> 2]

AddUsage(u, r) ==
    [input  |-> u.input + r.input,
     output |-> u.output + r.output,
     total  |-> u.total + r.total]

\* Responses of the model collaborator to a subcall: a transport error, an
\* answer whose text is blank, an answer with text to be trimmed.
SubResponses ==
    {[err |-> TRUE,  text |-> <<>>,         usage |-> ZeroUsage],
     [err |-> FALSE, text |-> <<" ">>,      usage |-> RespUsage],
     [err |-> FALSE, text |-> <<" ", "a">>, usage |-> RespUsage]}

NoResponse == [err |-> FALSE, text |-> <<>>, usage |-> ZeroUsage]

\* What a handler did outward: the model it called, the result it returned.
NoOut == [model |-> <<>>, result |-> <<>>]

\* Lines 458-461: the model of the subcall.
SelectModelIgnoringRequest(req, default) == default
SelectModel(req, default) ==
    IF req.model.given /\ TrimSpace(req.model.text) # <<>>
    THEN TrimSpace(req.model.text)
    ELSE default

\* A rejected request goes on to the counter all the same.
AfterCheckNeverRejects(st) == "lock"
\* Lines 413-447: a failed check ends the request.
AfterCheck(st) == IF st = 0 THEN "lock" ELSE "done"

\* The requests that arrive while an RLM run is going on: the one the
\* session's client library sends, and one with a wrong token.
RunRequests == {GoodRequest(0), [GoodRequest(0) EXCEPT !.auth = "badtoken"]}

\* The requests a server receives: any of Requests when it is exercised
\* alone, those of RunRequests within a run.
Incoming == IF rpc = "off" THEN Requests ELSE RunRequests

\* The requests served: all of Handlers when the server is exercised alone,
\* one fewer within a run.
Arrivals == IF rpc = "off" THEN Handlers ELSE 1..(MaxRequests - 1)

\* The sessions whose code can have sent a request: those that were given
\* the token and the endpoint with some RunPython (line 282), the replaced
\* ones included, since code started by an execution can outlive it.  When
\* the server is exercised alone the sender is left open (0).
Senders ==
    IF rpc = "off" THEN {0}
    ELSE {execLog[i].index : i \in 1..Len(execLog)}

\* PreCheck with the depth comparison off by one.
PreCheckDepthOffByOne(req, md) ==
    IF req.method # "POST" THEN StatusMethodNotAllowed
    ELSE IF req.auth # "ok" THEN StatusUnauthorized
    ELSE IF req.body # "ok" THEN StatusBadRequest
    ELSE IF req.prompt # "ok" THEN StatusBadRequest
    ELSE IF req.depth < 0 THEN StatusBadRequest
    ELSE IF md >= 0 /\ req.depth > md + 1 THEN StatusConflict
    ELSE 0

\* Lines 413-447: the checks made before the counter is touched.  The result
\* is the status of the rejection, or 0 when the request passes them all.
PreCheck(req, md) ==
    IF req.method # "POST" THEN StatusMethodNotAllowed
    ELSE IF req.auth # "ok" THEN StatusUnauthorized
    ELSE IF req.body # "ok" THEN StatusBadRequest
    ELSE IF req.prompt # "ok" THEN StatusBadRequest
    ELSE IF req.depth < 0 THEN StatusBadRequest
    ELSE IF md >= 0 /\ req.depth > md THEN StatusConflict
    ELSE 0

\* A lock that excludes nobody.
MuLockNoExclusion(holder) == TRUE
\* h.mu.Lock() returns only when no goroutine holds the mutex.
MuCanLock(holder) == holder = 0

\* Line 453: the limit check on the value read under the lock.
LimitExceeded(current, ms) == ms >= 0 /\ current > ms

\* What the subcall server leaves alone.
notSub == <<rlmOnly, loopVars, execVars, authVars, configVars,
    manifestVars, doVars, tasksVars>>

SubInit ==
    /\ srv = "init"
    /\ maxDepth \in -1..MaxDepthCfg
    /\ maxSubcalls \in -1..MaxSubcallsCfg
    /\ counter = 0
    /\ hmu = 0
    /\ hpc = [h \in Handlers |-> "idle"]
    /\ hreq = [h \in Handlers |-> NoRequest]
    /\ htmp = [h \in Handlers |-> 0]
    /\ hcurrent = [h \in Handlers |-> 0]
    /\ hresp = [h \in Handlers |-> NoResponse]
    /\ hstatus = [h \in Handlers |-> 0]
    /\ subLLMCalls = 0
    /\ hout = [h \in Handlers |-> NoOut]
    /\ usage = ZeroUsage

\* startLocalRLMSubcallServer: a negative max_subcalls is refused, otherwise
\* the counter starts at 0 and the server listens.
StartServer ==
    /\ srv = "init"
    /\ srv' = IF maxSubcalls < 0 THEN "failed" ELSE "up"
    /\ counter' = 0
    /\ UNCHANGED <<maxDepth, maxSubcalls, hmu, hpc, hreq, htmp, hcurrent,
                   hresp, hstatus, subLLMCalls, usage>>
    /\ UNCHANGED hout
    /\ UNCHANGED notSub

\* ServeHTTP lines 413-447: a request arrives and is checked.  Requests are
\* numbered in the order of their arrival.
Receive(h) ==
    /\ srv = "up"
    /\ hpc[h] = "idle"
    /\ h \in Arrivals
    /\ IF h = 1 THEN TRUE ELSE hpc[h - 1] # "idle"
    /\ \E req \in Incoming, s \in Senders :
        LET st == PreCheck(req, maxDepth)
        IN  /\ hreq' = [hreq EXCEPT ![h] =
                            [req EXCEPT !.sess = s, !.cur = sessionIndex]]
            /\ hstatus' = [hstatus EXCEPT ![h] = st]
            /\ hpc' = [hpc EXCEPT ![h] = AfterCheck(st)]
    /\ UNCHANGED <<srv, maxDepth, maxSubcalls, counter, hmu, htmp, hcurrent,
                   hresp, subLLMCalls, usage>>
    /\ UNCHANGED hout
    /\ UNCHANGED notSub

\* Line 449: h.mu.Lock()
Lock(h) ==
    /\ hpc[h] = "lock"
    /\ MuCanLock(hmu)
    /\ hmu' = h
    /\ hpc' = [hpc EXCEPT ![h] = "inc_read"]
    /\ UNCHANGED <<srv, maxDepth, maxSubcalls, counter, hreq, htmp, hcurrent,
                   hresp, hstatus, subLLMCalls, usage>>
    /\ UNCHANGED hout
    /\ UNCHANGED notSub

\* Line 450, right-hand side: read *h.counter
IncRead(h) ==
    /\ hpc[h] = "inc_read"
    /\ htmp' = [htmp EXCEPT ![h] = counter]
    /\ hpc' = [hpc EXCEPT ![h] = "inc_write"]
    /\ UNCHANGED <<srv, maxDepth, maxSubcalls, counter, hmu, hreq, hcurrent,
                   hresp, hstatus, subLLMCalls, usage>>
    /\ UNCHANGED hout
    /\ UNCHANGED notSub

\* Line 450, assignment: *h.counter = (value read) + 1; the value read is
\* dead afterwards
IncWrite(h) ==
    /\ hpc[h] = "inc_write"
    /\ counter' = htmp[h] + 1
    /\ htmp' = [htmp EXCEPT ![h] = 0]
    /\ hpc' = [hpc EXCEPT ![h] = "unlock"]
    /\ UNCHANGED <<srv, maxDepth, maxSubcalls, hmu, hreq, hcurrent,
                   hresp, hstatus, subLLMCalls, usage>>
    /\ UNCHANGED hout
    /\ UNCHANGED notSub

\* Lines 451-452: current := *h.counter; h.mu.Unlock()
ReadUnlock(h) ==
    /\ hpc[h] = "unlock"
    /\ hcurrent' = [hcurrent EXCEPT ![h] = counter]
    /\ hmu' = IF hmu = h THEN 0 ELSE hmu
    /\ hpc' = [hpc EXCEPT ![h] = "limit"]
    /\ UNCHANGED <<srv, maxDepth, maxSubcalls, counter, hreq, htmp, hresp,
                   hstatus, subLLMCalls, usage>>
    /\ UNCHANGED hout
    /\ UNCHANGED notSub

\* Lines 453-465: the limit check and the choice of the model.  The default
\* model is never empty (runRLM refuses to start without one), so an admitted
\* request always has a model.
LimitCheck(h) ==
    /\ hpc[h] = "limit"
    /\ IF LimitExceeded(hcurrent[h], maxSubcalls)
       THEN /\ hstatus' = [hstatus EXCEPT ![h] = StatusConflict]
            /\ hpc' = [hpc EXCEPT ![h] = "done"]
       ELSE IF SelectModel(hreq[h], DefaultModel) = <<>>
       THEN /\ hstatus' = [hstatus EXCEPT ![h] = StatusBadRequest]
            /\ hpc' = [hpc EXCEPT ![h] = "done"]
       ELSE /\ hstatus' = hstatus
            /\ hpc' = [hpc EXCEPT ![h] = "call"]
    /\ UNCHANGED <<srv, maxDepth, maxSubcalls, counter, hmu, hreq, htmp,
                   hcurrent, hresp, subLLMCalls, usage>>
    /\ UNCHANGED hout
    /\ UNCHANGED notSub

\* A handler that gave its unit of the budget back when the model call
\* failed; ServeHTTP has no such step.
CallSubLLMRollback(h) ==
    /\ hpc[h] = "call"
    /\ subLLMCalls' = subLLMCalls + 1
    /\ hout' = [hout EXCEPT ![h].model = SelectModel(hreq[h], DefaultModel)]
    /\ \E resp \in SubResponses :
        /\ hresp' = [hresp EXCEPT ![h] = resp]
        /\ IF resp.err
           THEN /\ hstatus' = [hstatus EXCEPT ![h] = StatusBadGateway]
                /\ hpc' = [hpc EXCEPT ![h] = "done"]
                /\ counter' = counter - 1
           ELSE /\ hstatus' = hstatus
                /\ hpc' = [hpc EXCEPT ![h] = "usage"]
                /\ counter' = counter
    /\ UNCHANGED <<srv, maxDepth, maxSubcalls, hmu, hreq, htmp,
                   hcurrent, usage>>
    /\ UNCHANGED notSub

\* Lines 467-471: the one model call of an accepted subcall.
CallSubLLM(h) ==
    /\ hpc[h] = "call"
    /\ subLLMCalls' = subLLMCalls + 1
    /\ hout' = [hout EXCEPT ![h].model = SelectModel(hreq[h], DefaultModel)]
    /\ \E resp \in SubResponses :
        /\ hresp' = [hresp EXCEPT ![h] = resp]
        /\ IF resp.err
           THEN /\ hstatus' = [hstatus EXCEPT ![h] = StatusBadGateway]
                /\ hpc' = [hpc EXCEPT ![h] = "done"]
           ELSE /\ hstatus' = hstatus
                /\ hpc' = [hpc EXCEPT ![h] = "usage"]
    /\ UNCHANGED <<srv, maxDepth, maxSubcalls, counter, hmu, hreq, htmp,
                   hcurrent, usage>>
    /\ UNCHANGED notSub

\* Lines 472-482: h.usage.add(resp.Usage) under the usage mutex, then the
\* answer: 502 for an empty text, 200 with the trimmed text otherwise.
UsageAddRespond(h) ==
    /\ hpc[h] = "usage"
    /\ usage' = AddUsage(usage, hresp[h].usage)
    /\ LET text == TrimSpace(hresp[h].text)
       IN  /\ hstatus' = [hstatus EXCEPT ![h] =
                    IF text = <<>> THEN StatusBadGateway ELSE StatusOK]
           /\ hout' = [hout EXCEPT ![h].result = text]
    /\ hpc' = [hpc EXCEPT ![h] = "done"]
    /\ UNCHANGED <<srv, maxDepth, maxSubcalls, counter, hmu, hreq, htmp,
                   hcurrent, hresp, subLLMCalls>>
    /\ UNCHANGED notSub

\* runRLM line 155, the deferred closeServer() (server.Close of httptest):
\* once runLocalRLMLoop has returned the listener is closed, so no further
\* request arrives.
CloseServer ==
    /\ srv = "up"
    /\ rpc = "returned"
    /\ srv' = "closing"
    /\ UNCHANGED <<maxDepth, maxSubcalls, counter, hmu, hpc, hreq, htmp,
                   hcurrent, hresp, hstatus, subLLMCalls, hout, usage>>
    /\ UNCHANGED notSub

\* server.Close returns when the outstanding requests have completed; then
\* runRLM returns.
ServerClosed ==
    /\ srv = "closing"
    /\ \A h \in Handlers : hpc[h] \in {"idle", "done"}
    /\ srv' = "closed"
    /\ UNCHANGED <<maxDepth, maxSubcalls, counter, hmu, hpc, hreq, htmp,
                   hcurrent, hresp, hstatus, subLLMCalls, hout, usage>>
    /\ UNCHANGED notSub

(***************************************************************************)
(* RLM loop and its code session                                           *)
(***************************************************************************)
NoIterOut == [parseErr |-> FALSE, needsRestart |-> FALSE, done |-> FALSE]

\* What rlm.ProcessIteration can report for one execution: a done-marker
\* parse error, the needs-restart condition, completion.  A parse error
\* excludes completion; the other combinations are left open.
IterOutcomes ==
    {o \in [parseErr : BOOLEAN, needsRestart : BOOLEAN, done : BOOLEAN] :
        o.parseErr => ~o.done}

\* The code of the n-th response of the model, and what the n-th execution
\* gave back (stdout, stderr, exit code, timed-out flag): each its own.
Code(n) == <<"code", n>>
ExecResult(n) == <<"stdout, stderr, exit code, timed out", n>>

\* Lines 304-312: the trajectory entry of iteration i, made of the code and
\* the result of the execution.
IterationRecord(i, exec) ==
    [iteration |-> i, code |-> exec.code, result |-> exec.result]

\* Outcomes of the outer model call: an error, a response whose normalized
\* code is empty, a response with code.
LLMOutcomes == {"err", "empty", "code"}

EmptyResult ==
    [answer |-> "", iterations |-> 0, subcalls |-> 0, usage |-> ZeroUsage,
     trajectory |-> <<>>]

Running == [status |-> "running", err |-> "", result |-> EmptyResult]

\* Every error return of runLocalRLMLoop: workflow.RLMResultV1{} and the error.
Failed(e) == [status |-> "error", err |-> e, result |-> EmptyResult]

\* session.Close() on session s of the list of close counts; nil is skipped.
CloseSessionNoop(closes, s) == closes
CloseSession(closes, s) ==
    IF s = 0 THEN closes ELSE [closes EXCEPT ![s] = @ + 1]

\* Line 227: nextIndex := sessionIndex + 1
NextIndexStale(idx) == idx
NextIndex(idx) == idx + 1

\* Line 268: the loop condition, as the position it leads to.
LoopHead(i) == IF i < maxIterations THEN "callLLM" ELSE "finish"

Alive(s) == sessCloses[s] = 0
AliveSessions == {s \in 1..Len(sessCloses) : Alive(s)}

RlmInit ==
    /\ maxIterations \in 0..MaxIterationsCfg
    /\ rpc = "startSession"
    /\ ri = 0
    /\ session = 0
    /\ sessionIndex = 0
    /\ pending = 0
    /\ sessCloses = <<>>
    /\ recovered = FALSE
    /\ iterOut = NoIterOut
    /\ execLog = <<>>
    /\ trajectory = <<>>
    /\ feedback = <<>>
    /\ answer = ""
    /\ rllmCalls = 0
    /\ rresult = Running

\* The RLM loop parked: no run.
RlmIdle ==
    /\ maxIterations = 0
    /\ rpc = "off"
    /\ ri = 0
    /\ session = 0
    /\ sessionIndex = 0
    /\ pending = 0
    /\ sessCloses = <<>>
    /\ recovered = FALSE
    /\ iterOut = NoIterOut
    /\ execLog = <<>>
    /\ trajectory = <<>>
    /\ feedback = <<>>
    /\ answer = ""
    /\ rllmCalls = 0
    /\ rresult = Running

\* The subcall server parked: not started, no request.
SubIdle ==
    /\ srv = "off"
    /\ maxDepth = 0
    /\ maxSubcalls = 0
    /\ counter = 0
    /\ hmu = 0
    /\ hpc = [h \in Handlers |-> "idle"]
    /\ hreq = [h \in Handlers |-> NoRequest]
    /\ htmp = [h \in Handlers |-> 0]
    /\ hcurrent = [h \in Handlers |-> 0]
    /\ hresp = [h \in Handlers |-> NoResponse]
    /\ hstatus = [h \in Handlers |-> 0]
    /\ subLLMCalls = 0
    /\ hout = [h \in Handlers |-> NoOut]

\* What the RLM loop leaves alone.
notRlm == <<subOnly, loopVars, execVars, authVars, configVars,
    manifestVars, doVars, tasksVars>>

\* A return with an error.  The deferred Close of lines 243-247 runs on every
\* return after the first startSession: it closes the session in the slot.
ReturnErrorLeak(e) ==
    /\ rresult' = Failed(e)
    /\ rpc' = "returned"
    /\ sessCloses' = sessCloses

ReturnError(e) ==
    /\ rresult' = Failed(e)
    /\ rpc' = "returned"
    /\ sessCloses' = CloseSession(sessCloses, session)

\* runRLM lines 151-159: the loop is entered only with the server started
\* ("off": the loop exercised without a server).
ServerReadyAlways(st) == TRUE
ServerReady(st) == st \in {"off", "up"}

\* startSession, line 228 / startLocalRLMSession line 355: interp.Start.
\* A failure of the first start returns before the deferred Close exists.
\* Within runRLM the loop is called only after the subcall server has been
\* started (lines 151-159).
SessionStart ==
    /\ rpc = "startSession"
    /\ ServerReady(srv)
    /\ \E ok \in BOOLEAN :
        IF ok
        THEN /\ sessCloses' = Append(sessCloses, 0)
             /\ pending' = Len(sessCloses) + 1
             /\ rpc' = "setup"
             /\ rresult' = rresult
        ELSE /\ ReturnError("session start")
             /\ pending' = pending
    /\ UNCHANGED <<maxIterations, ri, session, sessionIndex, recovered,
                   iterOut, execLog, trajectory, feedback, answer, rllmCalls,
                   usage>>
    /\ UNCHANGED notRlm

\* startLocalRLMSession lines 359-370: the context file and the session id.
\* A failure closes the session just started and makes startSession fail.
SessionSetup ==
    /\ rpc = "setup"
    /\ \E ok \in BOOLEAN :
        IF ok
        THEN /\ rpc' = "swap"
             /\ UNCHANGED <<sessCloses, pending, rresult>>
        ELSE /\ rresult' = Failed("session setup")
             /\ rpc' = "returned"
             /\ sessCloses' =
                    CloseSession(CloseSession(sessCloses, pending), session)
             /\ pending' = 0
    /\ UNCHANGED <<maxIterations, ri, session, sessionIndex, recovered,
                   iterOut, execLog, trajectory, feedback, answer, rllmCalls,
                   usage>>
    /\ UNCHANGED notRlm

\* startSession lines 232-238: close the old session if there is one, then
\* take the new one and its index.  After the first start the loop begins
\* (line 268); after a restart the iteration goes on at line 300.
SessionSwap ==
    /\ rpc = "swap"
    /\ sessCloses' = CloseSession(sessCloses, session)
    /\ session' = pending
    /\ pending' = 0
    /\ sessionIndex' = NextIndex(sessionIndex)
    /\ recovered' = (session # 0)
    /\ rpc' = IF session = 0 THEN LoopHead(ri) ELSE "record"
    /\ UNCHANGED <<maxIterations, ri, iterOut, execLog, trajectory, feedback,
                   answer, rllmCalls, rresult, usage>>
    /\ UNCHANGED notRlm

\* Lines 269-280: the model call of the iteration, its usage, its code.
CallLLM ==
    /\ rpc = "callLLM"
    /\ rllmCalls' = rllmCalls + 1
    /\ \E out \in LLMOutcomes :
        /\ usage' = IF out = "err" THEN usage ELSE AddUsage(usage, RespUsage)
        /\ IF out = "err" THEN ReturnError("model call")
           ELSE IF out = "empty" THEN ReturnError("missing response text")
           ELSE /\ rpc' = "exec"
                /\ UNCHANGED <<rresult, sessCloses>>
    /\ UNCHANGED <<maxIterations, ri, session, sessionIndex, pending,
                   recovered, iterOut, execLog, trajectory, feedback, answer>>
    /\ UNCHANGED notRlm

\* Lines 295-301: where the iteration goes after an execution without parse
\* error: through startSession when the session needs a restart.
AfterExecNoRestart(o) == "record"
AfterExec(o) == IF o.needsRestart THEN "startSession" ELSE "record"

\* Line 291: iterOutput.ParseErr != nil
ParseFailedNever(o) == FALSE
ParseFailed(o) == o.parseErr

\* Lines 282-301: RunPython on the current session with the environment of
\* buildEnv, rlm.ProcessIteration, and the decision to restart.
Exec ==
    /\ rpc = "exec"
    /\ \E o \in IterOutcomes :
        /\ iterOut' = o
        /\ execLog' = Append(execLog,
                [iteration |-> ri + 1, session |-> session,
                 index |-> sessionIndex, needsRestart |-> o.needsRestart,
                 code |-> Code(rllmCalls),
                 result |-> ExecResult(Len(execLog) + 1)])
        /\ IF ParseFailed(o) THEN ReturnError("parse done marker")
           ELSE /\ rpc' = AfterExec(o)
                /\ UNCHANGED <<rresult, sessCloses>>
    /\ recovered' = FALSE
    /\ UNCHANGED <<maxIterations, ri, session, sessionIndex, pending,
                   trajectory, feedback, answer, rllmCalls, usage>>
    /\ UNCHANGED notRlm

\* Lines 303-322: the iteration record, then either the answer and the end of
\* the loop or the feedback message and the next iteration.
Record ==
    /\ rpc = "record"
    /\ trajectory' = Append(trajectory,
            IterationRecord(ri + 1, execLog[Len(execLog)]))
    /\ IF iterOut.done
       THEN /\ answer' = "answer"
            /\ rpc' = "finish"
            /\ UNCHANGED <<feedback, ri>>
       ELSE /\ feedback' = Append(feedback,
                    [iteration |-> ri + 1, recovered |-> recovered])
            /\ ri' = ri + 1
            /\ rpc' = LoopHead(ri + 1)
            /\ answer' = answer
    /\ UNCHANGED <<maxIterations, session, sessionIndex, pending, sessCloses,
                   recovered, iterOut, execLog, rllmCalls, rresult, usage>>
    /\ UNCHANGED notRlm

\* Lines 324-340: without an answer the run fails with an empty result;
\* otherwise it returns the answer, the trajectory and the usage.
Finish ==
    /\ rpc = "finish"
    /\ rpc' = "returned"
    /\ sessCloses' = CloseSession(sessCloses, session)
    /\ rresult' =
        IF answer = ""
        THEN Failed("max iterations exceeded")
        ELSE [status |-> "ok", err |-> "",
              result |-> [answer |-> answer,
                          iterations |-> Len(trajectory),
                          subcalls |-> counter,
                          usage |-> usage,
                          trajectory |-> trajectory]]
    /\ UNCHANGED <<maxIterations, ri, session, sessionIndex, pending,
                   recovered, iterOut, execLog, trajectory, feedback, answer,
                   rllmCalls, usage>>
    /\ UNCHANGED notRlm

RlmNext ==
    \/ SessionStart
    \/ SessionSetup
    \/ SessionSwap
    \/ CallLLM
    \/ Exec
    \/ Record
    \/ Finish

(***************************************************************************)
(* Turn loops: runAgentLoop (mrl agent loop) and runDoLoop (mrl do)        *)
(***************************************************************************)
ZeroAgentUsage ==
    [llmCalls |-> 0, toolCalls |-> 0, input |-> 0, output |-> 0, total |-> 0]

\* The assistant text of response number id; each response has its own.
Text(id) == <<"text", id>>
NoText == <<"text", 0>>

\* Responses of the model to call number id: any number of tool calls up to
\* the bound, and one of two token counts.
LoopResponses(id) ==
    {[id |-> id, ok |-> TRUE, ncalls |-> n,
      usage |-> [input |-> t, output |-> 1, total |-> t + 1]] :
        n \in 0..MaxToolCalls, t \in 1..2}

\* Lines 189-193 / 150-153: one more model call and its tokens.
AccumulateResponseOverwrites(u, resp) ==
    [u EXCEPT !.llmCalls = @ + 1,
              !.input = resp.usage.input,
              !.output = resp.usage.output,
              !.total = resp.usage.total]
AccumulateResponse(u, resp) ==
    [u EXCEPT !.llmCalls = @ + 1,
              !.input = @ + resp.usage.input,
              !.output = @ + resp.usage.output,
              !.total = @ + resp.usage.total]

\* Lines 195-196 / 155-156: len(toolCalls) == 0
NoToolCallsNever(resp) == FALSE
NoToolCalls(resp) == resp.ncalls = 0

LoopNoResult ==
    [output |-> NoText, usage |-> ZeroAgentUsage, lastResponse |-> 0,
     steps |-> <<>>, err |-> ""]

\* Line 166 / 135: the loop condition, as the state it leads to.
TurnHead(turn) ==
    IF turn < lmaxTurns THEN "AWAITING_MODEL" ELSE "MAX_TURNS_EXCEEDED"

\* Lines 229-233: sdk.AgentMaxTurnsError{MaxTurns, LastResponse, Usage};
\* part_014 line 210: fmt.Errorf("max turns (%d) reached without completion").
MaxTurnsResult(kind, last, u) ==
    IF kind = "agent"
    THEN [LoopNoResult EXCEPT !.err = "max turns", !.lastResponse = last,
                              !.usage = u]
    ELSE [LoopNoResult EXCEPT !.err = "max turns"]

\* A run starts with the effective budget: runAgentLoop has replaced 0 by the
\* SDK default and a negative value by the largest int, so its budget is at
\* least 1 (lines 147-156); runDoLoop takes --max-turns as it is.
LoopInit ==
    /\ lkind \in {"agent", "do"}
    /\ lmaxTurns \in (IF lkind = "agent" THEN 1 ELSE 0)..MaxTurnsCfg
    /\ lrecord \in (IF lkind = "agent" THEN BOOLEAN ELSE {FALSE})
    /\ lpc = "START"
    /\ lturn = 0
    /\ lusage = ZeroAgentUsage
    /\ lsteps = <<>>
    /\ lastResp = 0
    /\ lmessages = <<>>
    /\ lresponses = <<>>
    /\ ltoolRuns = 0
    /\ linvoked = <<>>
    /\ lresult = LoopNoResult

\* The turn loops parked: no run.
LoopIdle ==
    /\ lkind = "off"
    /\ lmaxTurns = 0
    /\ lrecord = FALSE
    /\ lpc = "OFF"
    /\ lturn = 0
    /\ lusage = ZeroAgentUsage
    /\ lsteps = <<>>
    /\ lastResp = 0
    /\ lmessages = <<>>
    /\ lresponses = <<>>
    /\ ltoolRuns = 0
    /\ linvoked = <<>>
    /\ lresult = LoopNoResult

\* What the turn loops leave alone.
notLoop == <<subOnly, rlmOnly, usage, execVars, authVars, configVars,
    manifestVars, doVars, tasksVars>>

\* Line 166 / 135: entering the loop.
LoopEnter ==
    /\ lpc = "START"
    /\ lpc' = TurnHead(0)
    /\ lresult' = IF 0 < lmaxTurns THEN lresult
                  ELSE MaxTurnsResult(lkind, lastResp, lusage)
    /\ UNCHANGED <<lkind, lmaxTurns, lrecord, lturn, lusage, lsteps, lastResp,
                   lmessages, lresponses, ltoolRuns, linvoked>>
    /\ UNCHANGED notLoop

\* Lines 185-187 / 146-148: `if err != nil { return err }`, as the state the
\* loop is in after a failed call made in state pc.
AfterModelErrorRetries(pc) == pc
AfterModelError(pc) == "FATAL_ERROR"

\* Lines 184-187 / 145-148: the model call fails; the error is returned.
ModelError ==
    /\ lpc = "AWAITING_MODEL"
    /\ lresponses' = Append(lresponses,
            [id |-> Len(lresponses) + 1, ok |-> FALSE, ncalls |-> 0,
             usage |-> ZeroUsage])
    /\ lpc' = AfterModelError(lpc)
    /\ lresult' = [LoopNoResult EXCEPT !.err = "model call"]
    /\ UNCHANGED <<lkind, lmaxTurns, lrecord, lturn, lusage, lsteps, lastResp,
                   lmessages, ltoolRuns, linvoked>>
    /\ UNCHANGED notLoop

\* Lines 184-212 / 145-167: the model answers.  Without tool calls the loop
\* ends: handleAgentLoopOutput builds the result from the response (writing
\* the output file may fail), runDoLoop prints the text.  With tool calls the
\* assistant message is appended and the tools are run next.
ModelResponse ==
    /\ lpc = "AWAITING_MODEL"
    /\ \E resp \in LoopResponses(Len(lresponses) + 1) :
        /\ lresponses' = Append(lresponses, resp)
        /\ lastResp' = IF lkind = "agent" THEN resp.id ELSE lastResp
        /\ IF NoToolCalls(resp)
           THEN /\ lusage' = AccumulateResponse(lusage, resp)
                /\ lpc' = "DONE"
                /\ \E werr \in (IF lkind = "agent" THEN BOOLEAN ELSE {FALSE}) :
                    lresult' =
                        [output |-> Text(resp.id),
                         usage |-> IF lkind = "agent"
                                   THEN AccumulateResponse(lusage, resp)
                                   ELSE ZeroAgentUsage,
                         lastResponse |-> IF lkind = "agent" THEN resp.id
                                          ELSE 0,
                         steps |-> lsteps,
                         err |-> IF werr THEN "write output" ELSE ""]
                /\ lmessages' = lmessages
           ELSE /\ lusage' = [AccumulateResponse(lusage, resp)
                                  EXCEPT !.toolCalls = @ + resp.ncalls]
                /\ lpc' = "AWAITING_TOOLS"
                /\ lmessages' = Append(lmessages,
                        [kind |-> "assistant", resp |-> resp.id, call |-> 0,
                         error |-> FALSE])
                /\ lresult' = lresult
    /\ UNCHANGED <<lkind, lmaxTurns, lrecord, lturn, lsteps, ltoolRuns,
                   linvoked>>
    /\ UNCHANGED notLoop

\* Line 195 / 154: resp.ToolCalls(), the calls of the response in order.
ToolCalls(resp) == [c \in 1..resp.ncalls |-> [resp |-> resp.id, call |-> c]]

\* registry.ExecuteAll: the handler of each call is invoked, in input order,
\* whether or not an earlier one failed (the calls numbered in failing are
\* those whose handler fails); each call gets one result, which carries the
\* error of a failed handler.
ExecuteAll(calls, failing) ==
    [invoked |-> [i \in 1..Len(calls) |->
                    [resp |-> calls[i].resp, call |-> calls[i].call,
                     failed |-> i \in failing]],
     results |-> [i \in 1..Len(calls) |->
                    [resp |-> calls[i].resp, call |-> calls[i].call,
                     error |-> i \in failing]]]

\* registry.ResultsToMessages: one tool-result message per result, in order.
ResultsToMessages(results) ==
    [i \in 1..Len(results) |->
        [kind |-> "tool", resp |-> results[i].resp, call |-> results[i].call,
         error |-> results[i].error]]

\* Lines 213 and 219 / 184-185: the messages made of the results of the
\* calls of the response, of which the calls in errs fail.
ResultMessages(resp, errs) ==
    ResultsToMessages(ExecuteAll(ToolCalls(resp), errs).results)

\* Line 219 / 185: messages = append(messages, ...ResultsToMessages(results))
AppendResultsFirstOnly(messages, msgs) == messages \o SubSeq(msgs, 1, 1)
AppendResults(messages, msgs) == messages \o msgs

\* Lines 213-227 / 184-208: the tools of the turn run, their results are
\* appended, the step is recorded (agent loop, when traced or JSON), and the
\* next turn begins or the budget is exhausted.
ExecuteTools ==
    /\ lpc = "AWAITING_TOOLS"
    /\ LET resp == lresponses[Len(lresponses)]
       IN  \E errs \in SUBSET (1..resp.ncalls) :
            /\ ltoolRuns' = ltoolRuns + resp.ncalls
            /\ linvoked' =
                    linvoked \o ExecuteAll(ToolCalls(resp), errs).invoked
            /\ lmessages' = AppendResults(lmessages,
                                          ResultMessages(resp, errs))
            /\ lsteps' = IF lrecord
                         THEN Append(lsteps,
                                [turn |-> lturn, toolCalls |-> resp.ncalls,
                                 toolErrors |-> Cardinality(errs)])
                         ELSE lsteps
    /\ lturn' = lturn + 1
    /\ lpc' = TurnHead(lturn + 1)
    /\ lresult' = IF lturn + 1 < lmaxTurns THEN lresult
                  ELSE MaxTurnsResult(lkind, lastResp, lusage)
    /\ UNCHANGED <<lkind, lmaxTurns, lrecord, lusage, lastResp, lresponses>>
    /\ UNCHANGED notLoop

LoopNext ==
    \/ LoopEnter
    \/ ModelError
    \/ ModelResponse
    \/ ExecuteTools

(***************************************************************************)
(* Custom tool execution: customExecTool.handle and limitedBuffer          *)
(***************************************************************************)
customToolDefaultMaxOutputBytes == 32000

Streams == {"stdout", "stderr"}

\* buildCustomExecTool, lines 589-592: the cap of the tool.
BuildMaxOutput(entryMax) ==
    IF entryMax > 0 THEN entryMax ELSE customToolDefaultMaxOutputBytes

\* newLimitedBuffer, lines 704-709.
NewLimitedBuffer(maxBytes) ==
    [buf |-> <<>>,
     maxBytes |-> IF maxBytes <= 0 THEN customToolDefaultMaxOutputBytes
                  ELSE maxBytes,
     truncated |-> FALSE]

\* The bytes of a stream are numbered from 1: the argument of a Write of n
\* bytes after w bytes is w+1 .. w+n.
Chunk(w, n) == [i \in 1..n |-> w + i]

\* p[:remaining], line 725.
KeepAll(p, remaining) == p
Keep(p, remaining) == SubSeq(p, 1, remaining)

\* b.cancel(), lines 718-720 and 727-729: cancelling a context that is
\* already done changes nothing.
CancelNoop(ctx) == ctx
Cancel(ctx) == IF ctx = "active" THEN "canceled" ELSE ctx

\* limitedBuffer.Write, lines 711-732: the buffer after the call, the count
\* it returns, and whether it called cancel.
LimitedWrite(b, p) ==
    LET remaining == b.maxBytes - Len(b.buf)
    IN  IF b.maxBytes <= 0
        THEN [b |-> [b EXCEPT !.buf = @ \o p], n |-> Len(p), cancel |-> FALSE]
        ELSE IF remaining <= 0
        THEN [b |-> [b EXCEPT !.truncated = TRUE], n |-> Len(p),
              cancel |-> TRUE]
        ELSE IF Len(p) > remaining
        THEN [b |-> [b EXCEPT !.buf = @ \o Keep(p, remaining),
                              !.truncated = TRUE],
              n |-> Len(p), cancel |-> TRUE]
        ELSE [b |-> [b EXCEPT !.buf = @ \o p], n |-> Len(p), cancel |-> FALSE]

NoWrite == [stream |-> "", len |-> 0, before |-> 0, n |-> 0, ctxBefore |-> ""]

NoExecResult ==
    [stdout |-> <<>>, stderr |-> <<>>, exitCode |-> 0, timedOut |-> FALSE,
     outputTruncated |-> FALSE, error |-> FALSE, callErr |-> FALSE,
     returned |-> FALSE]

ExecInit ==
    /\ xentryMax \in 0..MaxOutputCfg
    /\ xpc = "init"
    /\ xctx = "none"
    /\ xproc = "none"
    /\ xexit = 0
    /\ xbuf = [s \in Streams |-> NewLimitedBuffer(0)]
    /\ xwritten = [s \in Streams |-> 0]
    /\ xlast = NoWrite
    /\ xres = NoExecResult
    /\ xrun = "active"

\* No custom tool running.
ExecIdle ==
    /\ xentryMax = 0
    /\ xpc = "off"
    /\ xctx = "none"
    /\ xproc = "none"
    /\ xexit = 0
    /\ xbuf = [s \in Streams |-> NewLimitedBuffer(0)]
    /\ xwritten = [s \in Streams |-> 0]
    /\ xlast = NoWrite
    /\ xres = NoExecResult
    /\ xrun = "none"

\* What handle leaves alone.
notExec == <<subOnly, rlmOnly, usage, loopVars, authVars, configVars,
    manifestVars, doVars, tasksVars>>

\* Lines 658-676: the context, the two buffers, and cmd.Run starting the
\* process, or failing to start it.
\* Line 682: ctx.Err() == context.DeadlineExceeded
TimedOutNever(ctx) == FALSE
TimedOut(ctx) == ctx = "deadline"

ExecStart ==
    /\ xpc = "init"
    /\ xpc' = "running"
    /\ xctx' = "active"
    /\ xbuf' = [s \in Streams |-> NewLimitedBuffer(BuildMaxOutput(xentryMax))]
    /\ \E started \in BOOLEAN :
        xproc' = IF started THEN "running" ELSE "failed"
    /\ UNCHANGED <<xentryMax, xexit, xwritten, xlast, xres>>
    /\ UNCHANGED xrun
    /\ UNCHANGED notExec

\* The copying goroutine of cmd.Run hands the next n bytes of a stream to
\* the buffer (line 711); output already in the pipe still arrives after the
\* process has ended.
Write(s) ==
    /\ xpc = "running"
    /\ xproc # "failed"
    /\ \E n \in 0..MaxWrite :
        /\ xwritten[s] + n <= MaxStream
        /\ LET w == LimitedWrite(xbuf[s], Chunk(xwritten[s], n))
           IN  /\ xbuf' = [xbuf EXCEPT ![s] = w.b]
               /\ xctx' = IF w.cancel THEN Cancel(xctx) ELSE xctx
               /\ xlast' = [stream |-> s, len |-> n,
                            before |-> Len(xbuf[s].buf), n |-> w.n,
                            ctxBefore |-> xctx]
        /\ xwritten' = [xwritten EXCEPT ![s] = @ + n]
    /\ UNCHANGED <<xentryMax, xpc, xproc, xexit, xres>>
    /\ UNCHANGED xrun
    /\ UNCHANGED notExec

\* The process ends by itself with some exit status.
ProcExit ==
    /\ xpc = "running"
    /\ xproc = "running"
    /\ xproc' = "exited"
    /\ xexit' \in {0, 1}
    /\ UNCHANGED <<xentryMax, xpc, xctx, xbuf, xwritten, xlast, xres>>
    /\ UNCHANGED xrun
    /\ UNCHANGED notExec

\* A deadline that replaced the error of a context already cancelled;
\* the context package keeps the first error.
DeadlineOverrides ==
    /\ xpc = "running"
    /\ xctx \in {"active", "canceled"}
    /\ xctx' = "deadline"
    /\ UNCHANGED <<xentryMax, xpc, xproc, xexit, xbuf, xwritten, xlast, xres>>
    /\ UNCHANGED xrun
    /\ UNCHANGED notExec

\* Line 658: the deadline of context.WithTimeout passes.
Deadline ==
    /\ xpc = "running"
    /\ xctx = "active"
    /\ xctx' = "deadline"
    /\ UNCHANGED <<xentryMax, xpc, xproc, xexit, xbuf, xwritten, xlast, xres>>
    /\ UNCHANGED xrun
    /\ UNCHANGED notExec

\* Line 668, exec.CommandContext: the process is killed once ctx is done.
Kill ==
    /\ xpc = "running"
    /\ xctx \in {"canceled", "deadline"}
    /\ xproc = "running"
    /\ xproc' = "killed"
    /\ UNCHANGED <<xentryMax, xpc, xctx, xexit, xbuf, xwritten, xlast, xres>>
    /\ UNCHANGED xrun
    /\ UNCHANGED notExec

\* Lines 676-694: cmd.Run returns, the result is built, the deferred cancel
\* runs.
ExecReturn ==
    /\ xpc = "running"
    /\ xproc \in {"exited", "killed", "failed"}
    /\ xpc' = "done"
    /\ xres' = [stdout |-> xbuf["stdout"].buf,
                stderr |-> xbuf["stderr"].buf,
                exitCode |-> IF xproc = "exited" THEN xexit ELSE 0 - 1,
                timedOut |-> TimedOut(xctx),
                outputTruncated |-> xbuf["stdout"].truncated
                                    \/ xbuf["stderr"].truncated,
                error |-> ~(xproc = "exited" /\ xexit = 0),
                callErr |-> FALSE,
                returned |-> TRUE]
    /\ xctx' = Cancel(xctx)
    /\ UNCHANGED <<xentryMax, xproc, xexit, xbuf, xwritten, xlast>>
    /\ UNCHANGED xrun
    /\ UNCHANGED notExec

\* The context of the run is cancelled (the caller's timeout, a signal)
\* while the tool call is in flight.
\* handle derives its own context from context.Background() (line 658), so
\* nothing of the tool call changes.
CancelRun ==
    /\ xpc = "running"
    /\ xrun = "active"
    /\ xrun' = "canceled"
    /\ UNCHANGED <<xentryMax, xpc, xctx, xproc, xexit, xbuf, xwritten, xlast,
                   xres>>
    /\ UNCHANGED notExec

ExecNext ==
    \/ ExecStart
    \/ \E s \in Streams : Write(s)
    \/ ProcExit
    \/ Deadline
    \/ Kill
    \/ ExecReturn
    \/ CancelRun

(***************************************************************************)
(* Bash tool authorization: parseBashRules, buildAgentLoopTools            *)
(***************************************************************************)
\* strings.Split(s, ",")
RECURSIVE SplitComma(_)
SplitComma(s) ==
    IF \A i \in 1..Len(s) : s[i] # ","
    THEN <<s>>
    ELSE LET i == CHOOSE k \in 1..Len(s) :
                    s[k] = "," /\ \A j \in 1..(k - 1) : s[j] # ","
         IN  <<SubSeq(s, 1, i - 1)>> \o SplitComma(SubSeq(s, i + 1, Len(s)))

\* splitCSVValues, lines 355-361: the inner loop over the parts of one value.
RECURSIVE TrimmedParts(_)
TrimmedParts(parts) ==
    IF parts = <<>> THEN <<>>
    ELSE LET part == TrimSpace(Head(parts))
         IN  (IF part = <<>> THEN <<>> ELSE <<part>>)
                \o TrimmedParts(Tail(parts))

\* splitCSVValues, lines 352-364.
RECURSIVE splitCSVValues(_)
splitCSVValues(values) ==
    IF values = <<>> THEN <<>>
    ELSE TrimmedParts(SplitComma(Head(values)))
            \o splitCSVValues(Tail(values))

ExactMark == <<"e", "x", "a", "c", "t", ":">>
PrefixMark == <<"p", "r", "e", "f", "i", "x", ":">>
RegexpMark == <<"r", "e", "g", "e", "x", "p", ":">>

\* regexp.Compile on the patterns explored: literals with an optional ^ in
\* front and $ behind compile, a lone parenthesis does not.
RegexpCompiles(expr) == \A i \in 1..Len(expr) : expr[i] \notin {"(", ")"}

\* compileBashRegexp, lines 486-496.
compileBashRegexp(expr) ==
    LET e == TrimSpace(expr)
    IN  IF e = <<>> THEN [err |-> "regexp rule is empty", re |-> <<>>]
        ELSE IF ~RegexpCompiles(e) THEN [err |-> "invalid regexp", re |-> <<>>]
        ELSE [err |-> "", re |-> e]

\* parseBashRules, lines 463-480: the rule of one entry.
ParseRuleAlwaysPrefix(entry) ==
    [err |-> "", kind |-> "Prefix", text |-> TrimSpace(entry)]
ParseRule(entry) ==
    LET raw == TrimSpace(entry)
    IN  IF HasPrefix(raw, ExactMark)
        THEN [err |-> "", kind |-> "Exact", text |-> TrimPrefix(raw, ExactMark)]
        ELSE IF HasPrefix(raw, RegexpMark)
        THEN LET c == compileBashRegexp(TrimPrefix(raw, RegexpMark))
             IN  [err |-> c.err, kind |-> "Regexp", text |-> c.re]
        ELSE IF HasPrefix(raw, PrefixMark)
        THEN [err |-> "", kind |-> "Prefix", text |-> TrimPrefix(raw, PrefixMark)]
        ELSE [err |-> "", kind |-> "Prefix", text |-> raw]

Rule(kind, text) == [kind |-> kind, text |-> text]

\* parseBashRules, lines 461-483: the loop over the flattened entries; the
\* first entry that fails ends it with the error.
RECURSIVE ParseEntries(_)
ParseEntries(flat) ==
    IF flat = <<>> THEN [err |-> "", rules |-> <<>>]
    ELSE IF TrimSpace(Head(flat)) = <<>> THEN ParseEntries(Tail(flat))
    ELSE LET r == ParseRule(Head(flat))
             rest == ParseEntries(Tail(flat))
         IN  IF r.err # "" THEN [err |-> r.err, rules |-> <<>>]
             ELSE IF rest.err # "" THEN rest
             ELSE [err |-> "", rules |-> <<Rule(r.kind, r.text)>> \o rest.rules]

\* parseBashRules, lines 459-484.
parseBashRules(values) == ParseEntries(splitCSVValues(values))

\* A bash tool pack built without options: nothing is allowed.
DefaultPack == [allowAll |-> FALSE, allow |-> <<>>, deny |-> <<>>]

\* Lines 404-416: the options handed to sdk.NewLocalBashToolPack.
BashOptionsNoDeny(allowAll, allowRules, denyRules) ==
    [allowAll |-> allowAll, allow |-> allowRules, deny |-> <<>>]
BashOptions(allowAll, allowRules, denyRules) ==
    [allowAll |-> IF allowAll THEN TRUE ELSE DefaultPack.allowAll,
     allow |-> IF Len(allowRules) > 0 THEN allowRules ELSE DefaultPack.allow,
     deny |-> IF Len(denyRules) > 0 THEN denyRules ELSE DefaultPack.deny]

\* A compiled pattern tested against a command: the literal of the pattern
\* occurs in the command, at its start after ^, at its end before $.
RegexpMatch(re, c) ==
    LET front == re # <<>> /\ Head(re) = "^"
        r1 == IF front THEN Tail(re) ELSE re
        back == r1 # <<>> /\ r1[Len(r1)] = "$"
        lit == IF back THEN SubSeq(r1, 1, Len(r1) - 1) ELSE r1
    IN  \E i \in 1..(Len(c) + 1) :
            /\ i + Len(lit) - 1 <= Len(c)
            /\ SubSeq(c, i, i + Len(lit) - 1) = lit
            /\ front => i = 1
            /\ back => i + Len(lit) - 1 = Len(c)

\* A rule matching a command: Exact compares the trimmed command, Prefix a
\* literal prefix, Regexp tests the pattern.
Matches(rule, c) ==
    CASE rule.kind = "Exact" -> TrimSpace(c) = rule.text
      [] rule.kind = "Prefix" -> HasPrefix(c, rule.text)
      [] rule.kind = "Regexp" -> RegexpMatch(rule.text, c)

MatchesAny(rules, c) == \E i \in 1..Len(rules) : Matches(rules[i], c)

\* The decision of the pack on a command.
Authorize(pack, c) ==
    /\ pack.allowAll \/ MatchesAny(pack.allow, c)
    /\ ~MatchesAny(pack.deny, c)

\* Values of --bash-allow and --bash-deny explored: "g ", "exact:g p",
\* "regexp:^g s", "regexp:(", "r, prefix:g s", "exact:".
RawValues ==
    {<<"g", " ">>,
     ExactMark \o <<"g", " ", "p">>,
     RegexpMark \o <<"^", "g", " ", "s">>,
     RegexpMark \o <<"(">>,
     <<"r", ",", " ">> \o PrefixMark \o <<"g", " ", "s">>,
     ExactMark}

\* Lists of at most n values.
ValueLists(n) == UNION {[1..k -> RawValues] : k \in 0..n}

\* Commands the model asks to run: "g s", "g p", "g p " , "gs", "r", "".
Commands ==
    {<<"g", " ", "s">>, <<"g", " ", "p">>, <<"g", " ", "p", " ">>,
     <<"g", "s">>, <<"r">>, <<>>}

NoDecision == [asked |-> FALSE, cmd |-> <<>>, allowed |-> FALSE]

AuthInit ==
    /\ bflags \in [allow : ValueLists(MaxRules), deny : ValueLists(MaxRules),
                   allowAll : BOOLEAN]
    /\ bpc = "init"
    /\ bpack = DefaultPack
    /\ bdecision = NoDecision

\* No bash tool being configured.
AuthIdle ==
    /\ bflags = [allow |-> <<>>, deny |-> <<>>, allowAll |-> FALSE]
    /\ bpc = "off"
    /\ bpack = DefaultPack
    /\ bdecision = NoDecision

\* What the bash tool configuration leaves alone.
notAuth == <<subOnly, rlmOnly, usage, loopVars, execVars, configVars,
    manifestVars, doVars, tasksVars>>

\* buildAgentLoopTools, lines 391-418: the rules are parsed, a configuration
\* without any permission is refused, the pack is built.
BuildBashTool ==
    /\ bpc = "init"
    /\ LET allowRules == parseBashRules(bflags.allow)
           denyRules == parseBashRules(bflags.deny)
       IN  IF allowRules.err # "" \/ denyRules.err # ""
              \/ (~bflags.allowAll /\ Len(allowRules.rules) = 0)
           THEN /\ bpc' = "configError"
                /\ bpack' = bpack
           ELSE /\ bpc' = "ready"
                /\ bpack' = BashOptions(bflags.allowAll, allowRules.rules,
                                        denyRules.rules)
    /\ UNCHANGED <<bflags, bdecision>>
    /\ UNCHANGED notAuth

\* The bash tool is called with a command and the pack decides on it.
AuthorizeCommand ==
    /\ bpc = "ready"
    /\ \E c \in Commands :
        bdecision' = [asked |-> TRUE, cmd |-> c, allowed |-> Authorize(bpack, c)]
    /\ UNCHANGED <<bflags, bpc, bpack>>
    /\ UNCHANGED notAuth

AuthNext ==
    \/ BuildBashTool
    \/ AuthorizeCommand

(***************************************************************************)
(* Set-up of an agent loop run: runAgentLoop before its loop,              *)
(* buildAgentLoopTools, appendToolDefs, registerCustomTools                *)
(***************************************************************************)
ToolNameBash == "bash"
toolNameTasksWrite == "tasks_write"

\* fsToolDefinitions: the names of the four tools of the fs pack.
fsToolDefinitions == <<"fs.read_file", "fs.list_files", "fs.search", "fs.edit">>

NoSelection ==
    [err |-> "", enableBash |-> FALSE, enableTasks |-> FALSE,
     enableFS |-> FALSE]

\* parseLoopTools, lines 335-348: the loop over the flattened values.
RECURSIVE SelectTools(_, _)
SelectTools(flat, sel) ==
    IF flat = <<>> THEN sel
    ELSE LET raw == Head(flat)
         IN  IF raw = "bash"
             THEN SelectTools(Tail(flat), [sel EXCEPT !.enableBash = TRUE])
             ELSE IF raw \in {"tasks_write", "tasks.write", "task.write",
                              "tasks"}
             THEN SelectTools(Tail(flat), [sel EXCEPT !.enableTasks = TRUE])
             ELSE IF raw = "fs"
             THEN SelectTools(Tail(flat), [sel EXCEPT !.enableFS = TRUE])
             ELSE [NoSelection EXCEPT !.err = "unknown tool"]

\* parseLoopTools, lines 329-350, on values already split at the commas.
parseLoopTools(flat, allowEmpty) ==
    IF Len(flat) = 0 /\ ~allowEmpty
    THEN [NoSelection EXCEPT !.err = "at least one --tool is required"]
    ELSE SelectTools(flat, NoSelection)

\* appendToolDefs, line 52: _, exists := seen[name]
ExistsNever(seen, name) == FALSE
Exists(seen, name) == name \in seen

\* appendToolDefs, part_015 lines 43-59.  The map seen is changed in place,
\* also when a later tool of the call fails.
RECURSIVE appendToolDefs(_, _, _)
appendToolDefs(defs, seen, add) ==
    IF add = <<>> THEN [err |-> "", defs |-> defs, seen |-> seen]
    ELSE LET name == Head(add)
         IN  IF name = ""
             THEN [err |-> "tool definition missing name", defs |-> <<>>,
                   seen |-> seen]
             ELSE IF Exists(seen, name)
             THEN [err |-> "duplicate tool name", defs |-> <<>>,
                   seen |-> seen]
             ELSE appendToolDefs(Append(defs, name), seen \cup {name},
                                 Tail(add))

\* registry.Register(name, handler) and pack.RegisterInto(registry), as the
\* registrations made: a name and the handler it is given.
Register(registry, name, handler) ==
    Append(registry, [name |-> name, handler |-> handler])

RegisterPack(registry, names, handler) ==
    registry \o [i \in 1..Len(names) |-> [name |-> names[i],
                                            handler |-> handler]]

\* registerCustomTools, part_012 lines 538-549: the loop over the entries;
\* entry k is registered only after its definition has been accepted.
RECURSIVE RegisterEntries(_, _, _, _, _)
RegisterEntries(registry, entries, seen, defs, k) ==
    IF entries = <<>>
    THEN [err |-> "", registry |-> registry, defs |-> defs, seen |-> seen]
    ELSE LET a == appendToolDefs(defs, seen, <<Head(entries)>>)
         IN  IF a.err # ""
             THEN [err |-> a.err, registry |-> registry, defs |-> <<>>,
                   seen |-> a.seen]
             ELSE RegisterEntries(
                    Register(registry, Head(entries), <<"custom", k>>),
                    Tail(entries), a.seen, a.defs, k + 1)

\* registerCustomTools, part_012 lines 530-551.
registerCustomTools(registry, custom, seen) ==
    IF Len(custom) = 0
    THEN [err |-> "", registry |-> registry, defs |-> <<>>, seen |-> seen]
    ELSE RegisterEntries(registry, custom, seen, <<>>, 1)

\* Line 386-389: the registry, the definitions and the names seen at the
\* start of buildAgentLoopTools.
NoTools == [err |-> "", defs |-> <<>>, seen |-> {}, registry |-> <<>>]

\* A return of buildAgentLoopTools with an error: no definitions.
Fail(st, e) == [st EXCEPT !.err = e, !.defs = <<>>]

\* The state after a pack or a handler has been registered and its
\* definitions appended with result a.
Added(st, reg, a) ==
    [err |-> a.err, defs |-> a.defs, seen |-> a.seen, registry |-> reg]

\* Line 400: !flags.bashAllowAll && len(allowRules) == 0
NoBashPermissionNever(flags, allowRules) == FALSE
NoBashPermission(flags, allowRules) ==
    ~flags.bashAllowAll /\ Len(allowRules) = 0

\* buildAgentLoopTools, lines 391-423: the bash tool.
BashStage(flags, st) ==
    LET allowRules == parseBashRules(flags.bashAllow)
        denyRules == parseBashRules(flags.bashDeny)
    IN  IF allowRules.err # "" THEN Fail(st, allowRules.err)
        ELSE IF denyRules.err # "" THEN Fail(st, denyRules.err)
        ELSE IF NoBashPermission(flags, allowRules.rules)
        THEN Fail(st, "bash tool requires --bash-allow or --bash-allow-all")
        ELSE Added(st, Register(st.registry, ToolNameBash, "bash pack"),
                   appendToolDefs(st.defs, st.seen, <<ToolNameBash>>))

\* Lines 425-432: the tasks tool.
TasksStage(st) ==
    Added(st, Register(st.registry, toolNameTasksWrite, "tasks"),
          appendToolDefs(st.defs, st.seen, <<toolNameTasksWrite>>))

\* Lines 434-444: the fs tools; buildFSToolOptions (part_001 lines 116-146)
\* fails on a search_timeout that is not a duration.
FSStage(flags, st) ==
    IF flags.fsConfig = "bad timeout" THEN Fail(st, "invalid fs search_timeout")
    ELSE Added(st, RegisterPack(st.registry, fsToolDefinitions, "fs pack"),
               appendToolDefs(st.defs, st.seen, fsToolDefinitions))

\* Lines 446-450: the custom tools of the manifest.
CustomStage(flags, st) ==
    LET r == registerCustomTools(st.registry, flags.custom, st.seen)
    IN  [err |-> r.err,
         defs |-> IF r.err # "" THEN <<>> ELSE st.defs \o r.defs,
         seen |-> r.seen, registry |-> r.registry]

\* Lines 391-423: the bash tool, when it is selected.
AfterBash(flags, selection) ==
    IF selection.enableBash THEN BashStage(flags, NoTools) ELSE NoTools

\* Lines 425-432: the tasks tool, when it is selected and nothing failed.
AfterTasks(selection, st) ==
    IF st.err = "" /\ selection.enableTasks THEN TasksStage(st) ELSE st

\* Lines 434-444: the fs tools, when they are selected and nothing failed.
AfterFS(flags, selection, st) ==
    IF st.err = "" /\ selection.enableFS THEN FSStage(flags, st) ELSE st

\* Lines 446-450: the custom tools, when nothing failed.
AfterCustom(flags, st) ==
    IF st.err = "" THEN CustomStage(flags, st) ELSE st

\* The four stages in the order of the code, each one applied to the
\* outcome of the one before it.
Stages(flags, selection) ==
    CHOOSE st4 \in
        {AfterCustom(flags, st3) : st3 \in
            {AfterFS(flags, selection, st2) : st2 \in
                {AfterTasks(selection, st1) : st1 \in
                    {AfterBash(flags, selection)}}}} : TRUE

\* Lines 452-456: the outcome of the stages.
Outcome(st) ==
    IF st.err # "" THEN Fail(st, st.err)
    ELSE IF Len(st.defs) = 0 THEN Fail(st, "no tools configured")
    ELSE st

\* Lines 372-384: a flag of a tool that is not selected.
FlagWithoutTool(flags, selection) ==
    IF /\ ~selection.enableBash
       /\ \/ flags.bashAllowAll
          \/ Len(flags.bashAllow) > 0
          \/ Len(flags.bashDeny) > 0
    THEN "bash flags set but bash tool not enabled"
    ELSE IF ~selection.enableTasks /\ flags.printTasks
    THEN "tasks output requested but tool not enabled"
    ELSE IF ~selection.enableFS /\ flags.fsConfig # "none"
    THEN "fs tool config provided but fs tool not enabled"
    ELSE ""

\* buildAgentLoopTools, lines 366-457.
BuildWith(flags, selection) ==
    IF selection.err # "" THEN Fail(NoTools, selection.err)
    ELSE IF FlagWithoutTool(flags, selection) # ""
    THEN Fail(NoTools, FlagWithoutTool(flags, selection))
    ELSE CHOOSE r \in {Outcome(st) : st \in {Stages(flags, selection)}} : TRUE

buildAgentLoopTools(flags) ==
    CHOOSE r \in
        {BuildWith(flags, selection) : selection \in
            {parseLoopTools(flags.tools, Len(flags.custom) > 0)}} : TRUE

\* resolveLoopStateID, line 500: stateIDRaw != "" && flags.stateTTLSeconds > 0
StateConflictNever(flags) == FALSE
StateConflict(flags) == flags.stateID # "" /\ flags.stateTTLSeconds > 0

\* Values of --tool explored, split at the commas.
ToolLists ==
    {<<>>, <<"bash">>, <<"bash", "tasks">>, <<"bash", "fs">>, <<"nope">>}

\* Names of the custom tools of a manifest, at most n of them.
CustomNames == {"x", "bash", "fs.search"}
CustomLists(n) == UNION {[1..k -> CustomNames] : k \in 0..n}

\* The flags and the manifest of a run.  --bash-allow is absent, "g " or
\* "regexp:("; --bash-deny is absent or "exact:g p".
ConfigFlags ==
    [model : BOOLEAN,
     tools : ToolLists,
     bashAllowAll : BOOLEAN,
     bashAllow : {<<>>, <<<<"g", " ">>>>, <<RegexpMark \o <<"(">>>>},
     bashDeny : {<<>>, <<ExactMark \o <<"g", " ", "p">>>>},
     custom : CustomLists(MaxCustom),
     fsConfig : {"none", "ok", "bad timeout"},
     printTasks : BOOLEAN,
     stateID : {"", "uuid"},
     stateTTLSeconds : 0..1]

ConfigInit ==
    /\ gflags \in ConfigFlags
    /\ gpc = "start"
    /\ gdefs = <<>>
    /\ gregistry = <<>>
    /\ gerr = ""
    /\ gcalls = 0

\* No agent loop run being set up.
ParkedFlags ==
    [model |-> FALSE, tools |-> <<>>, bashAllowAll |-> FALSE,
     bashAllow |-> <<>>, bashDeny |-> <<>>, custom |-> <<>>,
     fsConfig |-> "none", printTasks |-> FALSE, stateID |-> "",
     stateTTLSeconds |-> 0]

ConfigIdle ==
    /\ gflags = ParkedFlags
    /\ gpc = "off"
    /\ gdefs = <<>>
    /\ gregistry = <<>>
    /\ gerr = ""
    /\ gcalls = 0

\* What the set-up leaves alone.
notConfig == <<subOnly, rlmOnly, usage, loopVars, execVars, authVars,
    manifestVars, doVars, tasksVars>>

\* runAgentLoop lines 102-119: the manifest is loaded and a model or a
\* customer is required.
CheckModel ==
    /\ gpc = "start"
    /\ IF gflags.model
       THEN gpc' = "tools" /\ gerr' = gerr
       ELSE gpc' = "aborted" /\ gerr' = "model is required"
    /\ UNCHANGED <<gflags, gdefs, gregistry, gcalls>>
    /\ UNCHANGED notConfig

\* runAgentLoop lines 134-137: buildAgentLoopTools and its error.
BuildTools ==
    /\ gpc = "tools"
    /\ \E built \in {buildAgentLoopTools(gflags)} :
           /\ gregistry' = built.registry
           /\ gdefs' = built.defs
           /\ gerr' = built.err
           /\ gpc' = IF built.err # "" THEN "aborted" ELSE "built"
    /\ UNCHANGED <<gflags, gcalls>>
    /\ UNCHANGED notConfig

\* runAgentLoop lines 139-145, resolveLoopStateID: --state-id and
\* --state-ttl-sec exclude each other; creating a state handle may fail.
ResolveState ==
    /\ gpc = "built"
    /\ \E created \in BOOLEAN :
        IF StateConflict(gflags)
        THEN /\ gpc' = "aborted"
             /\ gerr' = "use either --state-id or --state-ttl-sec, not both"
        ELSE IF gflags.stateID = "" /\ gflags.stateTTLSeconds > 0 /\ ~created
        THEN gpc' = "aborted" /\ gerr' = "state handle"
        ELSE gpc' = "resolved" /\ gerr' = gerr
    /\ UNCHANGED <<gflags, gdefs, gregistry, gcalls>>
    /\ UNCHANGED notConfig

\* runAgentLoop lines 166-184: the first turn's request is built with the
\* tool definitions and sent to the model.
FirstModelCall ==
    /\ gpc = "resolved"
    /\ gcalls' = gcalls + 1
    /\ gpc' = "called"
    /\ UNCHANGED <<gflags, gdefs, gregistry, gerr>>
    /\ UNCHANGED notConfig

ConfigNext ==
    \/ CheckModel
    \/ BuildTools
    \/ ResolveState
    \/ FirstModelCall

(***************************************************************************)
(* The tool manifest of an agent loop run: applyToolManifest               *)
(***************************************************************************)
\* The flags a manifest has a value for (bindAgentLoopFlags).
Settings ==
    {"tool", "tool-root", "state-id", "state-ttl-sec", "bash-allow",
     "bash-deny", "bash-allow-all", "bash-timeout", "bash-max-output-bytes",
     "tasks-output", "print-tasks"}

\* The parts of a manifest that have no flag: its [bash], [tasks_write] and
\* [fs] sections (present or not) and its custom tools.
Sections == {"bash", "tasks_write", "fs", "custom"}

Keys == Settings \cup Sections

\* bindAgentLoopFlags: the value of a flag that is not on the command line.
\* The sections have no flag.
Default(k) ==
    CASE k = "tool" -> <<>>
      [] k = "tool-root" -> <<".">>
      [] k = "state-id" -> <<>>
      [] k = "state-ttl-sec" -> 0
      [] k = "bash-allow" -> <<>>
      [] k = "bash-deny" -> <<>>
      [] k = "bash-allow-all" -> FALSE
      [] k = "bash-timeout" -> 10
      [] k = "bash-max-output-bytes" -> 32
      [] k = "tasks-output" -> <<>>
      [] k = "print-tasks" -> FALSE
      [] OTHER -> FALSE

\* The values given to a flag on the command line.
CliValues(k) ==
    CASE k = "tool" -> {<<"bash">>, <<"fs">>}
      [] k = "tool-root" -> {<<"c">>}
      [] k = "state-id" -> {<<"c">>}
      [] k = "state-ttl-sec" -> {0, 1}
      [] k = "bash-allow" -> {<<<<"g", " ">>>>}
      [] k = "bash-deny" -> {<<ExactMark \o <<"g", " ", "p">>>>}
      [] k = "bash-allow-all" -> BOOLEAN
      [] k = "bash-timeout" -> {5}
      [] k = "bash-max-output-bytes" -> {64}
      [] k = "tasks-output" -> {<<"c">>}
      [] k = "print-tasks" -> BOOLEAN
      [] OTHER -> {}

\* What a manifest holds for a key it does not mention: an empty list or
\* string, a nil pointer (<<>>; <<v>> points to v), an absent section.
Absent(k) == IF k \in {"bash", "tasks_write", "fs"} THEN FALSE ELSE <<>>

\* The values a manifest gives to a key.
ManifestValues(k) ==
    CASE k = "tool" -> {<<"bash">>, <<"bash", "tasks">>}
      [] k = "tool-root" -> {<<" ">>, <<" ", "m">>}
      [] k = "state-id" -> {<<" ">>, <<"m", " ">>}
      [] k = "state-ttl-sec" -> {<<0>>, <<2>>}
      [] k = "bash-allow" -> {<<<<"m", " ">>>>}
      [] k = "bash-deny" -> {<<<<"d">>>>}
      [] k = "bash-allow-all" -> {<<TRUE>>, <<FALSE>>}
      [] k = "bash-timeout" -> {<<" ">>, <<"2", "s">>, <<"x">>}
      [] k = "bash-max-output-bytes" -> {<<0>>, <<128>>}
      [] k = "tasks-output" -> {<<" ">>, <<"m">>}
      [] k = "print-tasks" -> {<<TRUE>>, <<FALSE>>}
      [] k = "custom" -> {<<"x">>}
      [] OTHER -> {TRUE}

\* A key neither the command line nor the manifest mentions.
Silent(k) == [changed |-> FALSE, value |-> Default(k), man |-> Absent(k)]

\* The ways the command line and the manifest can mention a key.
Choices(k) ==
    {[changed |-> FALSE, value |-> Default(k), man |-> m] :
        m \in ManifestValues(k)}
    \cup {[changed |-> TRUE, value |-> v, man |-> m] :
            v \in CliValues(k), m \in ManifestValues(k) \cup {Absent(k)}}

\* One mention: a key and the way it is mentioned.
Picks == UNION {{[at |-> k, choice |-> ch] : ch \in Choices(k)} : k \in Keys}

\* The command line and the manifest that the first n mentions of p give;
\* a later mention of a key replaces an earlier one.
RECURSIVE Mention(_, _)
Mention(p, n) ==
    IF n = 0 THEN [k \in Keys |-> Silent(k)]
    ELSE [Mention(p, n - 1) EXCEPT ![p[n].at] = p[n].choice]

\* pflag: the flags of a command line, by name, and those it set.
CliFlags(c) == [k \in Settings |-> c[k].value]
CliChanged(c) == {k \in Settings : c[k].changed}

\* toolManifest, lines 16-49: a section is there when the manifest names it
\* or one of its fields.
ToManifest(c) ==
    [ToolRoot |-> c["tool-root"].man,
     Tools |-> c["tool"].man,
     StateID |-> c["state-id"].man,
     StateTTLSeconds |-> c["state-ttl-sec"].man,
     Bash |->
        IF \/ c["bash"].man
           \/ \E k \in {"bash-allow", "bash-deny", "bash-allow-all",
                        "bash-timeout", "bash-max-output-bytes"} :
                c[k].man # <<>>
        THEN <<[Allow |-> c["bash-allow"].man,
                Deny |-> c["bash-deny"].man,
                AllowAll |-> c["bash-allow-all"].man,
                Timeout |-> c["bash-timeout"].man,
                MaxOutputBytes |-> c["bash-max-output-bytes"].man]>>
        ELSE <<>>,
     TasksWrite |->
        IF \/ c["tasks_write"].man
           \/ c["tasks-output"].man # <<>>
           \/ c["print-tasks"].man # <<>>
        THEN <<[Output |-> c["tasks-output"].man,
                PrintTasks |-> c["print-tasks"].man]>>
        ELSE <<>>,
     FS |-> c["fs"].man,
     Custom |-> c["custom"].man]

\* inferredTools, lines 154-166.
inferredTools(m) ==
    (IF m.Bash # <<>> THEN <<"bash">> ELSE <<>>)
        \o (IF m.TasksWrite # <<>> THEN <<"tasks_write">> ELSE <<>>)
        \o (IF m.FS THEN <<"fs">> ELSE <<>>)

\* time.ParseDuration on the durations explored: a digit and the unit s.
DurationDigits == {"1", "2", "3"}
DigitValue(d) == CASE d = "1" -> 1 [] d = "2" -> 2 [] d = "3" -> 3
ParseDuration(s) ==
    IF Len(s) = 2 /\ s[1] \in DurationDigits /\ s[2] = "s"
    THEN [err |-> "", dur |-> DigitValue(s[1])]
    ELSE [err |-> "invalid duration", dur |-> 0]

\* flagset.Changed(name): the flag was set on the command line.
ChangedNever(changed, name) == FALSE
Changed(changed, name) == name \in changed

\* Lines 130-134: the manifest's bash timeout is looked at and does not
\* parse; applyToolManifest returns there.
BadTimeout(m, changed) ==
    /\ m.Bash # <<>>
    /\ ~Changed(changed, "bash-timeout")
    /\ TrimSpace(m.Bash[1].Timeout) # <<>>
    /\ ParseDuration(TrimSpace(m.Bash[1].Timeout)).err # ""

\* applyToolManifest, lines 99-149: the value of flag k afterwards.  The
\* flags handled after the bash timeout keep their value when the function
\* returns at line 133.
Applied(flags, m, changed, k) ==
    CASE k = "tool" ->
            IF Changed(changed, k) THEN flags[k]
            ELSE IF Len(m.Tools) > 0 THEN m.Tools
            ELSE IF Len(inferredTools(m)) > 0 THEN inferredTools(m)
            ELSE flags[k]
      [] k = "tool-root" ->
            IF ~Changed(changed, k) /\ TrimSpace(m.ToolRoot) # <<>>
            THEN TrimSpace(m.ToolRoot) ELSE flags[k]
      [] k = "state-id" ->
            IF ~Changed(changed, k) /\ TrimSpace(m.StateID) # <<>>
            THEN TrimSpace(m.StateID) ELSE flags[k]
      [] k = "state-ttl-sec" ->
            IF /\ ~Changed(changed, k)
               /\ m.StateTTLSeconds # <<>>
               /\ m.StateTTLSeconds[1] > 0
            THEN m.StateTTLSeconds[1] ELSE flags[k]
      [] k = "bash-allow" ->
            IF /\ m.Bash # <<>>
               /\ ~Changed(changed, k)
               /\ Len(m.Bash[1].Allow) > 0
            THEN m.Bash[1].Allow ELSE flags[k]
      [] k = "bash-deny" ->
            IF /\ m.Bash # <<>>
               /\ ~Changed(changed, k)
               /\ Len(m.Bash[1].Deny) > 0
            THEN m.Bash[1].Deny ELSE flags[k]
      [] k = "bash-allow-all" ->
            IF /\ m.Bash # <<>>
               /\ ~Changed(changed, k)
               /\ m.Bash[1].AllowAll # <<>>
            THEN m.Bash[1].AllowAll[1] ELSE flags[k]
      [] k = "bash-timeout" ->
            IF /\ m.Bash # <<>>
               /\ ~Changed(changed, k)
               /\ TrimSpace(m.Bash[1].Timeout) # <<>>
               /\ ~BadTimeout(m, changed)
            THEN ParseDuration(TrimSpace(m.Bash[1].Timeout)).dur
            ELSE flags[k]
      [] k = "bash-max-output-bytes" ->
            IF /\ m.Bash # <<>>
               /\ ~BadTimeout(m, changed)
               /\ ~Changed(changed, k)
               /\ m.Bash[1].MaxOutputBytes # <<>>
               /\ m.Bash[1].MaxOutputBytes[1] > 0
            THEN m.Bash[1].MaxOutputBytes[1] ELSE flags[k]
      [] k = "tasks-output" ->
            IF /\ m.TasksWrite # <<>>
               /\ ~BadTimeout(m, changed)
               /\ ~Changed(changed, k)
               /\ TrimSpace(m.TasksWrite[1].Output) # <<>>
            THEN TrimSpace(m.TasksWrite[1].Output) ELSE flags[k]
      [] k = "print-tasks" ->
            IF /\ m.TasksWrite # <<>>
               /\ ~BadTimeout(m, changed)
               /\ ~Changed(changed, k)
               /\ m.TasksWrite[1].PrintTasks # <<>>
            THEN m.TasksWrite[1].PrintTasks[1] ELSE flags[k]

\* applyToolManifest, lines 95-152.
applyToolManifest(flags, m, changed) ==
    [flags |-> [k \in Settings |-> Applied(flags, m, changed, k)],
     err |-> IF BadTimeout(m, changed) THEN "invalid bash timeout" ELSE ""]

\* The flags and the manifest as buildAgentLoopTools and resolveLoopStateID
\* read them: the tasks output is requested by --print-tasks or by a
\* --tasks-output that is not blank (line 378), the fs options are those of
\* the manifest (line 383), the state id is trimmed (line 499).
RunFlags(flags, m) ==
    [model |-> TRUE,
     tools |-> flags["tool"],
     bashAllowAll |-> flags["bash-allow-all"],
     bashAllow |-> flags["bash-allow"],
     bashDeny |-> flags["bash-deny"],
     custom |-> m.Custom,
     fsConfig |-> IF m.FS THEN "ok" ELSE "none",
     printTasks |->
        flags["print-tasks"] \/ TrimSpace(flags["tasks-output"]) # <<>>,
     stateID |-> IF TrimSpace(flags["state-id"]) = <<>> THEN "" ELSE "uuid",
     stateTTLSeconds |-> flags["state-ttl-sec"]]

\* runAgentLoop with --tools-file, before line 106: the command line is
\* parsed and the manifest is loaded.
ManifestInit ==
    /\ \E p \in [1..MaxMentioned -> Picks] :
       \E c \in {Mention(p, MaxMentioned)} :
        /\ mcli = CliFlags(c)
        /\ mchanged = CliChanged(c)
        /\ manifest = ToManifest(c)
        /\ mflags = CliFlags(c)
    /\ gflags = ParkedFlags
    /\ gpc = "load"
    /\ gdefs = <<>>
    /\ gregistry = <<>>
    /\ gerr = ""
    /\ gcalls = 0

\* No manifest.
ManifestIdle ==
    /\ mcli = <<>>
    /\ mchanged = {}
    /\ manifest = <<>>
    /\ mflags = <<>>

\* runAgentLoop lines 106-115: the manifest is applied to the flags; its
\* error ends the run, otherwise the run goes on with the flags it left.
ApplyManifest ==
    /\ gpc = "load"
    /\ \E applied \in {applyToolManifest(mcli, manifest, mchanged)} :
        /\ mflags' = applied.flags
        /\ IF applied.err # ""
           THEN /\ gpc' = "aborted"
                /\ gerr' = applied.err
                /\ gflags' = gflags
           ELSE /\ gpc' = "start"
                /\ gerr' = gerr
                /\ gflags' = RunFlags(applied.flags, manifest)
    /\ UNCHANGED <<gdefs, gregistry, gcalls>>
    /\ UNCHANGED <<mcli, mchanged, manifest>>
    /\ UNCHANGED <<subOnly, rlmOnly, usage, loopVars, execVars, authVars,
                   doVars, tasksVars>>

(***************************************************************************)
(* Set-up of a run of mrl do: runDo                                        *)
(***************************************************************************)
\* The flags of mrl do and the allow and allow_all of the config.
DoFlags ==
    [model : BOOLEAN,
     allow : {<<>>, <<<<"g", " ">>>>},
     allowAll : BOOLEAN,
     cfgAllow : {<<>>, <<<<"n", " ">>>>},
     cfgAllowAll : BOOLEAN,
     maxTurns : 0..MaxDoTurns]

NoDoOptions == [allowAll |-> FALSE, allow |-> <<>>, rules |-> <<>>]

DoInit ==
    /\ dflags \in DoFlags
    /\ dpc = "start"
    /\ dopts = NoDoOptions
    /\ derr = ""
    /\ dcalls = 0

\* No run of mrl do.
DoIdle ==
    /\ dflags = [model |-> FALSE, allow |-> <<>>, allowAll |-> FALSE,
                 cfgAllow |-> <<>>, cfgAllowAll |-> FALSE, maxTurns |-> 0]
    /\ dpc = "off"
    /\ dopts = NoDoOptions
    /\ derr = ""
    /\ dcalls = 0

notDo == <<subOnly, rlmOnly, usage, loopVars, execVars, authVars, configVars,
           manifestVars, tasksVars>>

\* runDo lines 63-66: a model is required.
DoResolveModel ==
    /\ dpc = "start"
    /\ IF dflags.model
       THEN dpc' = "merge" /\ derr' = derr
       ELSE dpc' = "aborted" /\ derr' = "model is required"
    /\ UNCHANGED <<dflags, dopts, dcalls>>
    /\ UNCHANGED notDo

\* runDo line 69: allowAll := allowAllFlag || cfg.AllowAll
MergeAllowAll(flags) == flags.allowAll \/ flags.cfgAllowAll

\* runDo lines 70-73: the allow of the config is taken when the flag gave
\* none.
MergeAllow(flags) ==
    IF Len(flags.allow) = 0 THEN flags.cfgAllow ELSE flags.allow

\* runDo line 76: !allowAll && len(allow) == 0
NoDoPermission(allowAll, allow) == ~allowAll /\ Len(allow) = 0

\* runDo lines 68-78: the flags are merged with the config and a run
\* without any permission is refused.
DoPermissions ==
    /\ dpc = "merge"
    /\ IF NoDoPermission(MergeAllowAll(dflags), MergeAllow(dflags))
       THEN /\ dpc' = "aborted"
            /\ derr' = "bash permissions required"
            /\ dopts' = dopts
       ELSE /\ dpc' = "permitted"
            /\ derr' = derr
            /\ dopts' = [allowAll |-> MergeAllowAll(dflags),
                         allow |-> MergeAllow(dflags),
                         rules |-> <<>>]
    /\ UNCHANGED <<dflags, dcalls>>
    /\ UNCHANGED notDo

\* runDoLoop lines 103-108: one prefix rule for each allow entry.
DoRules(allow) == [i \in 1..Len(allow) |-> Rule("Prefix", allow[i])]

\* runDo line 90 and runDoLoop lines 93-145: the bash tool is built with
\* the permissions and the first turn, if there is one, calls the model.
DoStartLoop ==
    /\ dpc = "permitted"
    /\ dopts' = [dopts EXCEPT !.rules = DoRules(dopts.allow)]
    /\ IF dflags.maxTurns > 0
       THEN dpc' = "called" /\ dcalls' = dcalls + 1
       ELSE dpc' = "done" /\ dcalls' = dcalls
    /\ UNCHANGED <<dflags, derr>>
    /\ UNCHANGED notDo

DoNext ==
    \/ DoResolveModel
    \/ DoPermissions
    \/ DoStartLoop

(***************************************************************************)
(* The tasks_write tool: tasksState.handleToolCall                         *)
(***************************************************************************)
\* runTask, lines 530-534.  The active form tells the tasks of one call
\* from those of another.
Task(content, status, n) ==
    [Content |-> content, Status |-> status, ActiveForm |-> n]

\* Lines 524-528: the task statuses.
runTaskStatuses == {"pending", "in_progress", "completed"}

\* The arguments of the n-th call, by kind: task lists that pass Validate
\* (two tasks, one task, none), lists with a task that does not (blank or
\* empty content, a status that is not one of the three, no status), and
\* arguments that do not decode into a task list.
PayloadKinds ==
    {"two", "one", "none", "blank", "empty", "done", "nostatus",
     "undecodable"}

Payload(n, kind) ==
    CASE kind = "two" ->
            [decodes |-> TRUE,
             Tasks |-> <<Task(<<"a">>, "pending", n),
                         Task(<<" ", "b">>, "completed", n)>>]
      [] kind = "one" ->
            [decodes |-> TRUE, Tasks |-> <<Task(<<"a">>, "in_progress", n)>>]
      [] kind = "none" -> [decodes |-> TRUE, Tasks |-> <<>>]
      [] kind = "blank" ->
            [decodes |-> TRUE,
             Tasks |-> <<Task(<<"a">>, "pending", n),
                         Task(<<" ">>, "pending", n)>>]
      [] kind = "empty" ->
            [decodes |-> TRUE, Tasks |-> <<Task(<<>>, "completed", n)>>]
      [] kind = "done" ->
            [decodes |-> TRUE,
             Tasks |-> <<Task(<<"a">>, "done", n),
                         Task(<<"b">>, "pending", n)>>]
      [] kind = "nostatus" ->
            [decodes |-> TRUE, Tasks |-> <<Task(<<"a">>, "", n)>>]
      [] kind = "undecodable" -> [decodes |-> FALSE, Tasks |-> <<>>]

\* tasksWriteArgs.Validate, lines 541-550, for one task.
ValidateTask(task) ==
    IF TrimSpace(task.Content) = <<>> THEN "task content is required"
    ELSE IF task.Status \notin runTaskStatuses THEN "invalid task status"
    ELSE ""

\* tasksWriteArgs.Validate, lines 540-552: the error of the first task that
\* has one.
ValidateAccepts(t) == ""
Validate(t) ==
    LET bad == {i \in 1..Len(t.Tasks) : ValidateTask(t.Tasks[i]) # ""}
    IN  IF bad = {} THEN ""
        ELSE ValidateTask(t.Tasks[CHOOSE i \in bad : \A j \in bad : i <= j])

\* parseTasksWriteArgs, lines 595-605.
parseTasksWriteArgs(args) ==
    IF args.decodes THEN [err |-> "", payload |-> args]
    ELSE [err |-> "json: cannot unmarshal", payload |-> args]

NoTasksResult == [ok |-> FALSE, err |-> ""]

\* newTasksState, lines 560-562, with or without --tasks-output.
TasksInit ==
    /\ tpath \in {<<>>, <<" ">>, <<"f">>}
    /\ tasks = <<>>
    /\ tfile = <<"no file">>
    /\ tcalls = <<>>
    /\ tres = NoTasksResult

\* No tasks tool.
TasksIdle ==
    /\ tpath = <<>>
    /\ tasks = <<>>
    /\ tfile = <<"no file">>
    /\ tcalls = <<>>
    /\ tres = NoTasksResult

notTasks == <<subOnly, rlmOnly, usage, loopVars, execVars, authVars,
              configVars, manifestVars, doVars>>

\* handleToolCall, lines 573-593, called with the arguments args: the
\* arguments are decoded and validated, the list is replaced, and it is
\* written to the output file when there is one, which may fail.
handleToolCall(args) ==
    /\ tcalls' = Append(tcalls, args)
    /\ \E parsed \in {parseTasksWriteArgs(args)} :
        IF parsed.err # ""
        THEN /\ tres' = [ok |-> FALSE, err |-> parsed.err]
             /\ UNCHANGED <<tasks, tfile>>
        ELSE IF Validate(parsed.payload) # ""
        THEN /\ tres' = [ok |-> FALSE, err |-> Validate(parsed.payload)]
             /\ UNCHANGED <<tasks, tfile>>
        ELSE /\ tasks' = parsed.payload.Tasks
             /\ IF TrimSpace(tpath) = <<>>
                THEN tres' = [ok |-> TRUE, err |-> ""] /\ tfile' = tfile
                ELSE \E written \in BOOLEAN :
                        IF written
                        THEN /\ tfile' = parsed.payload.Tasks
                             /\ tres' = [ok |-> TRUE, err |-> ""]
                        ELSE /\ tfile' = tfile
                             /\ tres' = [ok |-> FALSE, err |-> "write file"]
    /\ UNCHANGED tpath
    /\ UNCHANGED notTasks

\* One call of the tool by the model.
TasksWrite ==
    /\ Len(tcalls) < MaxTaskCalls
    /\ \E kind \in PayloadKinds : handleToolCall(Payload(Len(tcalls) + 1, kind))

TasksNext == TasksWrite

SubNext ==
    \/ StartServer
    \/ \E h \in Handlers : Receive(h)
    \/ \E h \in Handlers : Lock(h)
    \/ \E h \in Handlers : IncRead(h)
    \/ \E h \in Handlers : IncWrite(h)
    \/ \E h \in Handlers : ReadUnlock(h)
    \/ \E h \in Handlers : LimitCheck(h)
    \/ \E h \in Handlers : CallSubLLM(h)
    \/ \E h \in Handlers : UsageAddRespond(h)

(***************************************************************************)
(* Specifications: each runs one part of the program, the others parked    *)
(***************************************************************************)
\* A run of the RLM loop alone.
InitRLM ==
    /\ RlmInit /\ SubIdle /\ usage = ZeroUsage /\ LoopIdle /\ ExecIdle
    /\ AuthIdle /\ ConfigIdle /\ ManifestIdle /\ DoIdle
    /\ TasksIdle

SpecRLM == InitRLM /\ [][RlmNext]_vars

\* A run of one of the turn loops alone.
\* Either loop: a turn loop run or an RLM loop run.
InitLoops ==
    /\ SubIdle
    /\ usage = ZeroUsage
    /\ ExecIdle
    /\ AuthIdle
    /\ ConfigIdle
    /\ ManifestIdle
    /\ DoIdle
    /\ TasksIdle
    /\ \/ LoopInit /\ RlmIdle
       \/ RlmInit /\ LoopIdle

LoopsNext == LoopNext \/ RlmNext

SpecLoops == InitLoops /\ [][LoopsNext]_vars

InitLoop ==
    /\ LoopInit /\ SubIdle /\ RlmIdle /\ usage = ZeroUsage /\ ExecIdle
    /\ AuthIdle /\ ConfigIdle /\ ManifestIdle /\ DoIdle
    /\ TasksIdle

SpecLoop == InitLoop /\ [][LoopNext]_vars

\* One call of a custom tool alone.
InitExec ==
    /\ ExecInit /\ SubIdle /\ RlmIdle /\ usage = ZeroUsage /\ LoopIdle
    /\ AuthIdle /\ ConfigIdle /\ ManifestIdle /\ DoIdle
    /\ TasksIdle

SpecExec == InitExec /\ [][ExecNext]_vars

\* The same, with the kill that exec.CommandContext performs once the
\* context is done eventually taking place.
SpecExecFair == InitExec /\ [][ExecNext]_vars /\ WF_vars(Kill)

\* The configuration of the bash tool and its decisions alone.
InitAuth ==
    /\ AuthInit /\ SubIdle /\ RlmIdle /\ usage = ZeroUsage /\ LoopIdle
    /\ ExecIdle /\ ConfigIdle /\ ManifestIdle /\ DoIdle
    /\ TasksIdle

SpecAuth == InitAuth /\ [][AuthNext]_vars

\* The set-up of an agent loop run alone, up to its first model call.
InitConfig ==
    /\ ConfigInit /\ SubIdle /\ RlmIdle /\ usage = ZeroUsage /\ LoopIdle
    /\ ExecIdle /\ AuthIdle /\ ManifestIdle /\ DoIdle
    /\ TasksIdle

SpecConfig == InitConfig /\ [][ConfigNext]_vars

\* The start of a run that may use the bash tool: an agent loop run with a
\* tool manifest, from the command line to its first model call, or a run
\* of mrl do.
InitStart ==
    /\ SubIdle /\ RlmIdle /\ usage = ZeroUsage /\ LoopIdle /\ ExecIdle
    /\ AuthIdle /\ TasksIdle
    /\ \/ ManifestInit /\ DoIdle
       \/ ConfigIdle /\ ManifestIdle /\ DoInit

StartNext ==
    \/ ApplyManifest
    \/ ConfigNext
    \/ DoNext

SpecStart == InitStart /\ [][StartNext]_vars

\* The tasks_write tool alone, called some times.
InitTasks ==
    /\ TasksInit /\ SubIdle /\ RlmIdle /\ usage = ZeroUsage /\ LoopIdle
    /\ ExecIdle /\ AuthIdle /\ ConfigIdle /\ ManifestIdle /\ DoIdle

SpecTasks == InitTasks /\ [][TasksNext]_vars

\* runRLM from line 150 on: the subcall server is started, the loop runs
\* while requests arrive and are served, the server is closed.
RunNext ==
    \/ SubNext
    \/ RlmNext
    \/ CloseServer
    \/ ServerClosed

\* The steps of the handler of request h after the checks on arrival.
HandlerStep(h) ==
    \/ Lock(h)
    \/ IncRead(h)
    \/ IncWrite(h)
    \/ ReadUnlock(h)
    \/ LimitCheck(h)
    \/ CallSubLLM(h)
    \/ UsageAddRespond(h)

InitRun ==
    /\ SubInit
    /\ maxDepth = 0
    /\ maxSubcalls \in {0 - 1, 0, MaxSubcallsCfg}
    /\ RlmInit
    /\ maxIterations \in {0, 2}
    /\ LoopIdle /\ ExecIdle /\ AuthIdle /\ ConfigIdle /\ ManifestIdle /\ DoIdle
    /\ TasksIdle

SpecRun == InitRun /\ [][RunNext]_vars

\* The same, where a handler that can take a step eventually takes it (its
\* lock is released, its model call returns) and the deferred closeServer
\* runs and returns.
SpecRunFair ==
    /\ InitRun
    /\ [][RunNext]_vars
    /\ \A h \in Handlers : WF_vars(HandlerStep(h))
    /\ WF_vars(CloseServer)
    /\ WF_vars(ServerClosed)

\* The subcall server and its requests alone.
InitSubcall ==
    SubInit /\ RlmIdle /\ LoopIdle /\ ExecIdle /\ AuthIdle /\ ConfigIdle
    /\ ManifestIdle /\ DoIdle
    /\ TasksIdle

SpecSubcall == InitSubcall /\ [][SubNext]_vars

(***************************************************************************)
(* Claims about the subcall server                                         *)
(***************************************************************************)
\* A request is accepted when it has passed the limit check, that is, when it
\* is at its model call or beyond.
Accepted(h) ==
    \/ hpc[h] \in {"call", "usage"}
    \/ hpc[h] = "done" /\ hcurrent[h] > 0 /\ hstatus[h] # StatusConflict

WellFormed(req) ==
    /\ req.method = "POST"
    /\ req.auth = "ok"
    /\ req.body = "ok"
    /\ req.prompt = "ok"
    /\ req.depth >= 0

\* C1: with max_subcalls = N >= 0 (the server only starts then), under every
\* interleaving of the handlers at most N requests are accepted and at most N
\* subcall model calls are made; the requests that come out of the locked
\* increment hold pairwise different counter values, and each one whose value
\* is above N ends rejected with 409 and never reaches the model call.
C1_SubcallBound ==
    srv = "up" =>
        /\ maxSubcalls >= 0
        /\ Cardinality({h \in Handlers : Accepted(h)}) <= maxSubcalls
        /\ subLLMCalls <= maxSubcalls
        /\ \A h \in Handlers :
            hcurrent[h] > maxSubcalls =>
                /\ hpc[h] \in {"limit", "done"}
                /\ hpc[h] = "done" => hstatus[h] = StatusConflict
        /\ \A g, h \in Handlers :
            (g # h /\ hcurrent[g] > 0 /\ hcurrent[h] > 0)
                => hcurrent[g] # hcurrent[h]

\* C1 witness: the budget is used up by a request still at its model call
\* while a later request has been rejected with 409 by the limit check.
C1_Witness ==
    \E g, h \in Handlers :
        /\ maxSubcalls >= 1
        /\ hpc[g] = "call"
        /\ hcurrent[g] = maxSubcalls
        /\ hpc[h] = "done"
        /\ hcurrent[h] > maxSubcalls
        /\ hstatus[h] = StatusConflict

\* C2 as stated: whatever max_depth is configured, an authenticated,
\* well-formed request with depth > max_depth is rejected with 409 and never
\* touches the counter.
C2_DepthAlwaysRejected ==
    \A h \in Handlers :
        (hpc[h] # "idle" /\ WellFormed(hreq[h]) /\ hreq[h].depth > maxDepth)
            => /\ hpc[h] = "done"
               /\ hstatus[h] = StatusConflict
               /\ hcurrent[h] = 0

\* C2 amended: for a configured max_depth >= 0, an authenticated, well-formed
\* request with depth > max_depth is rejected with 409 without touching the
\* counter, whatever budget remains.  (A negative max_depth switches the depth
\* limit off.)
C2_DepthBound ==
    maxDepth >= 0 => C2_DepthAlwaysRejected

\* C2 witness: a too-deep request was rejected with 409 while subcall budget
\* remains, and another request was admitted to the counter.
C2_Witness ==
    \E g, h \in Handlers :
        /\ maxDepth >= 0
        /\ WellFormed(hreq[h]) /\ hreq[h].depth > maxDepth
        /\ hpc[h] = "done" /\ hstatus[h] = StatusConflict
        /\ hcurrent[g] > 0
        /\ counter < maxSubcalls

\* The handler has made its model call.
Called(h) == hpc[h] = "usage" \/ (hpc[h] = "done" /\ hout[h].model # <<>>)

\* C12: the subcall model calls made are exactly one per accepted request
\* that is past its call; the call uses the request's model, trimmed, when
\* one is given and not blank, and the default model otherwise; a finished
\* subcall returns 200 with the trimmed text of the response, or 502 and no
\* result when the call failed or the trimmed text is empty.
C12_OneCallTrimmedText ==
    /\ subLLMCalls = Cardinality({h \in Handlers : Called(h)})
    /\ \A h \in Handlers :
        /\ Called(h) <=> (Accepted(h) /\ hpc[h] # "call")
        /\ Called(h) =>
            LET m == hreq[h].model
                named == m.given /\ \E i \in 1..Len(m.text) : m.text[i] # " "
            IN  /\ named => hout[h].model = <<"m">>
                /\ ~named => hout[h].model = DefaultModel
        /\ (Called(h) /\ hpc[h] = "done") =>
            IF hresp[h].err \/ hresp[h].text = <<" ">>
            THEN hstatus[h] = StatusBadGateway /\ hout[h].result = <<>>
            ELSE hstatus[h] = StatusOK /\ hout[h].result = <<"a">>

\* C12 witness: one subcall named its model and got the trimmed text back,
\* another used the default model and failed on a blank answer.
C12_Witness ==
    \E g, h \in Handlers :
        /\ hpc[g] = "done" /\ hstatus[g] = StatusOK
        /\ hout[g].model = <<"m">> /\ hout[g].result = <<"a">>
        /\ hpc[h] = "done" /\ hstatus[h] = StatusBadGateway
        /\ hout[h].model = DefaultModel /\ hresp[h].text = <<" ">>

\* The requests rejected as unauthorized or as bad requests.
C13_Rejected ==
    \A h \in Handlers :
        (hpc[h] # "idle" /\ hreq[h].method = "POST") =>
            /\ hreq[h].auth # "ok" =>
                /\ hpc[h] = "done"
                /\ hstatus[h] = StatusUnauthorized
                /\ hcurrent[h] = 0
                /\ ~Called(h)
            /\ (hreq[h].auth = "ok" /\ ~WellFormed(hreq[h])) =>
                /\ hpc[h] = "done"
                /\ hstatus[h] = StatusBadRequest
                /\ hcurrent[h] = 0
                /\ ~Called(h)

\* The step that rejects a request on arrival changes neither the counter
\* nor the usage aggregate and makes no model call.
C13_Frame ==
    \A h \in Handlers :
        (hpc[h] = "idle" /\ hpc'[h] = "done") =>
            /\ counter' = counter
            /\ usage' = usage
            /\ subLLMCalls' = subLLMCalls
            /\ hmu' = hmu

\* C13: a POST request without the run's bearer token ends with 401; an
\* authenticated one with an undecodable body, a blank prompt or a negative
\* depth ends with 400; none of them reaches the counter or a model call, and
\* the rejecting step leaves the counter and the usage aggregate as they were.
C13_RejectionsTouchNothing ==
    /\ []C13_Rejected
    /\ [][C13_Frame]_vars

\* C13 witness: with one subcall accepted and its usage recorded, a request
\* of negative depth was rejected with 400 and the counter stayed at 1.
C13_Witness ==
    \E g, h \in Handlers :
        /\ hstatus[g] = StatusOK
        /\ usage = RespUsage
        /\ counter = 1
        /\ hpc[h] = "done"
        /\ hreq[h].depth < 0
        /\ hstatus[h] = StatusBadRequest

(***************************************************************************)
(* Claims about an RLM run with its subcall server                         *)
(***************************************************************************)
RECURSIVE SumUsage(_)
SumUsage(hs) ==
    IF hs = {} THEN ZeroUsage
    ELSE LET h == CHOOSE x \in hs : TRUE
         IN  AddUsage(hresp[h].usage, SumUsage(hs \ {h}))

RECURSIVE Times(_, _)
Times(n, u) == IF n = 0 THEN ZeroUsage ELSE AddUsage(u, Times(n - 1, u))

\* C11: when a run has ended in success and its server is closed, the usage
\* in the result is the usage of all the loop's model calls plus the usage of
\* the model call of every accepted subcall.
C11_ReportCountsAllUsage ==
    (rresult.status = "ok" /\ srv = "closed") =>
        rresult.result.usage =
            AddUsage(Times(rllmCalls, RespUsage),
                     SumUsage({h \in Handlers : Called(h)}))

\* C14: a request is accepted only if the session that sent it was the
\* current session when the server checked the request.
C14_StaleSessionRejected ==
    \A h \in Handlers : Accepted(h) => hreq[h].sess = hreq[h].cur

\* The loop is at work: a session is being started or replaced, the model is
\* being called, code is being executed or recorded.
LoopAtWork ==
    \/ rpc \in {"setup", "swap", "callLLM", "exec", "record", "finish"}
    \/ rpc = "startSession" /\ sessCloses # <<>>

C15_Lifecycle ==
    /\ LoopAtWork => srv = "up"
    /\ (sessCloses # <<>> \/ rllmCalls > 0 \/ execLog # <<>>) =>
            srv \in {"up", "closing", "closed"}
    /\ srv \in {"closing", "closed"} => rpc = "returned"
    /\ srv = "closed" => \A h \in Handlers : hpc[h] \in {"idle", "done"}

\* C15: the loop works only while the server is up (it is started before the
\* first session and the first iteration, and a server that failed to start
\* means no loop); the server is closed only after the loop has returned,
\* with every request served; and every return of the loop, with a result
\* or with any error, leads to the server being closed.
C15_ServerScopedToRun ==
    /\ []C15_Lifecycle
    /\ (rpc = "returned" ~> srv = "closed")

\* C15 witness: the iteration budget ran out after a subcall had been
\* answered, and the server is closed.
C15_Witness ==
    /\ srv = "closed"
    /\ rresult.err = "max iterations exceeded"
    /\ \E h \in Handlers : hstatus[h] = StatusOK

\* The step in which the loop reads the subcall counter for its result
\* (line 336).
LoopReadsCounter == rpc = "finish" /\ rpc' = "returned" /\ answer # ""

\* C24: the subcall counter is read and written only under h.mu, so the read
\* the loop makes for its result never happens while a handler is inside
\* the critical section that increments it.
C24_CounterReadUnderLock == [][LoopReadsCounter => hmu = 0]_vars

(***************************************************************************)
(* Claims about the RLM loop                                               *)
(***************************************************************************)
\* C4: whenever an execution reports needs-restart, the session it ran on is
\* closed once the restart is through (and in any case when the run has
\* returned), the next execution runs on another session with
\* SessionState.Index one higher, and the feedback message appended for that
\* iteration says that recovery happened; without needs-restart the session
\* and its index stay and the feedback says nothing of a recovery.
C4_RecoveryRoundTrip ==
    /\ \A k \in 1..Len(execLog) :
        (execLog[k].needsRestart
            /\ (k < Len(execLog) \/ rpc \in {"record", "callLLM", "finish",
                                             "returned"}))
            => sessCloses[execLog[k].session] >= 1
    /\ \A k \in 1..(Len(execLog) - 1) :
        IF execLog[k].needsRestart
        THEN /\ execLog[k + 1].session # execLog[k].session
             /\ execLog[k + 1].index = execLog[k].index + 1
        ELSE /\ execLog[k + 1].session = execLog[k].session
             /\ execLog[k + 1].index = execLog[k].index
    /\ \A j \in 1..Len(feedback) :
        /\ feedback[j].iteration = j
        /\ feedback[j].recovered = execLog[j].needsRestart

\* C4 witness: the first execution crashed, its feedback reports the
\* recovery, and the second execution ran on a new session with index 2.
C4_Witness ==
    /\ Len(execLog) >= 2
    /\ execLog[1].needsRestart
    /\ execLog[1].index = 1
    /\ execLog[2].index = 2
    /\ execLog[2].session # execLog[1].session
    /\ ~Alive(execLog[1].session)
    /\ feedback[1].recovered

C6_ExhaustionCarriesTrajectory ==
    (rpc = "returned" /\ rresult.err = "max iterations exceeded") =>
        /\ rllmCalls = maxIterations
        /\ Len(execLog) = maxIterations
        /\ Len(trajectory) = maxIterations
        /\ rresult.result.trajectory = trajectory
        /\ rresult.result.usage = usage

\* An iteration whose done marker did not parse has ended the run with that
\* error.
C25_Returned ==
    iterOut.parseErr =>
        /\ rpc = "returned"
        /\ rresult.status = "error"
        /\ rresult.err = "parse done marker"

\* After it no session is started, no model call and no execution is made,
\* and no feedback is given.
C25_NothingFollows ==
    iterOut.parseErr =>
        UNCHANGED <<rllmCalls, execLog, feedback, session, sessionIndex,
                    pending, sessCloses, trajectory, rresult>>

\* C25: a failure to parse the done marker of an iteration ends the run at
\* once with that error: no restart, no further model call or execution
\* follows, and the failure never becomes feedback for another attempt.
C25_ParseFailureIsFatal == []C25_Returned /\ [][C25_NothingFollows]_vars

\* The second iteration's done marker did not parse, on an execution that
\* also asked for a restart; the first iteration had given feedback.
C25_Witness ==
    /\ iterOut.parseErr
    /\ iterOut.needsRestart
    /\ Len(execLog) = 2
    /\ Len(feedback) = 1
    /\ rresult.err = "parse done marker"

\* The executions that reported a session fault.
Faults == {k \in 1..Len(execLog) : execLog[k].needsRestart}

StartErrors == {"session start", "session setup"}

\* C26 as stated: a session fault is never raised to the caller as an error
\* of the run.
C26_FaultNeverRaised ==
    (rpc = "returned" /\ iterOut.needsRestart /\ ~iterOut.parseErr) =>
        rresult.err \notin StartErrors

\* C26, amended: a session fault is answered by one attempt to start a new
\* session.  When it starts, the iteration goes on, marked recovered, on the
\* new session, no error is raised, and the feedback written for the
\* iteration reports the recovery.  When it does not start, the run ends
\* with the start error and nothing is retried.
C26_RecoveredOrStartError ==
    /\ Len(sessCloses) <= 1 + Cardinality(Faults)
    /\ (rpc = "record" /\ iterOut.needsRestart) =>
        /\ recovered
        /\ rresult = Running
        /\ Alive(session)
        /\ session # execLog[Len(execLog)].session
    /\ (rpc = "record" /\ ~iterOut.needsRestart) => ~recovered
    /\ \A j \in 1..Len(feedback) :
        feedback[j].recovered <=> feedback[j].iteration \in Faults
    /\ (rresult.err \in StartErrors /\ execLog # <<>>) =>
        /\ rpc = "returned"
        /\ Len(execLog) \in Faults
        /\ Len(feedback) < Len(execLog)

\* A run whose first execution crashed was recovered, told the model so, and
\* ended with an answer.
C26_Witness ==
    /\ rresult.status = "ok"
    /\ 1 \in Faults
    /\ Len(feedback) >= 1
    /\ feedback[1].recovered
    /\ Len(sessCloses) = 2

\* C16: between iterations and at the end of the run the trajectory has one
\* entry per execution made, in order, holding the iteration number, the
\* code executed and the result of that execution.
C16_EveryExecutionRecorded ==
    rpc \in {"callLLM", "finish", "returned"} =>
        /\ Len(trajectory) = Len(execLog)
        /\ \A k \in 1..Len(trajectory) :
            /\ trajectory[k].iteration = k
            /\ trajectory[k].code = execLog[k].code
            /\ trajectory[k].result = execLog[k].result

(***************************************************************************)
(* Claims about the turn loops                                             *)
(***************************************************************************)

\* A failed model call of the turn loop is the last thing the run did: it is
\* the last call made, the loop is over and its result is that error.
C17_TurnLoopFailed ==
    \A k \in 1..Len(lresponses) :
        ~lresponses[k].ok =>
            /\ k = Len(lresponses)
            /\ lpc = "FATAL_ERROR"
            /\ lresult.err = "model call"

\* A step of the RLM loop in which the model call failed (a call was made and
\* no usage came back) returns that error at once.
C17_RlmCallFails ==
    (rllmCalls' # rllmCalls /\ usage' = usage) =>
        /\ rpc' = "returned"
        /\ rresult'.status = "error"
        /\ rresult'.err = "model call"

\* After the failure nothing more is called or executed.
C17_Ended ==
    /\ lpc = "FATAL_ERROR" =>
        UNCHANGED <<lresponses, ltoolRuns, lmessages, lturn, lresult, lpc>>
    /\ (rpc = "returned" /\ rresult.err = "model call") =>
        UNCHANGED <<rllmCalls, execLog, trajectory, rresult, rpc>>

\* C17: a failed model call, in a turn loop or in the RLM loop, is not
\* retried: no further model call, no further tool or code execution, and the
\* run ends at once with that error as its result.
C17_NoRetry ==
    /\ []C17_TurnLoopFailed
    /\ [][C17_RlmCallFails /\ C17_Ended]_vars

\* A turn loop whose second model call failed, after the tools of the first
\* turn had run.
C17_Witness ==
    /\ lpc = "FATAL_ERROR"
    /\ Len(lresponses) = 2
    /\ ~lresponses[2].ok
    /\ ltoolRuns > 0

\* The model calls completed so far: the responses received.
Completed == {k \in 1..Len(lresponses) : lresponses[k].ok}

\* The sum of the numbers of a sequence.
RECURSIVE SumSeq(_)
SumSeq(q) == IF q = <<>> THEN 0 ELSE Head(q) + SumSeq(Tail(q))

\* Per model call made, what its response counted (nothing for a failed
\* call, which has no response).
InputTokens == [k \in 1..Len(lresponses) |-> lresponses[k].usage.input]
OutputTokens == [k \in 1..Len(lresponses) |-> lresponses[k].usage.output]
TotalTokens == [k \in 1..Len(lresponses) |-> lresponses[k].usage.total]
TurnToolCalls == [k \in 1..Len(lresponses) |-> lresponses[k].ncalls]

C18_Sums ==
    /\ lusage.llmCalls = Cardinality(Completed)
    /\ lusage.input = SumSeq(InputTokens)
    /\ lusage.output = SumSeq(OutputTokens)
    /\ lusage.total = SumSeq(TotalTokens)
    /\ lusage.toolCalls = SumSeq(TurnToolCalls)

C18_NoDecrease ==
    /\ lusage'.llmCalls >= lusage.llmCalls
    /\ lusage'.input >= lusage.input
    /\ lusage'.output >= lusage.output
    /\ lusage'.total >= lusage.total
    /\ lusage'.toolCalls >= lusage.toolCalls

\* C18: at every point of a turn loop the accumulated usage counts the model
\* calls completed so far, its token counters are the sums of the counters
\* of their responses, its tool-call count is the sum of the numbers of tool
\* calls of the turns, and no counter ever decreases.
C18_UsageAccumulates == []C18_Sums /\ [][C18_NoDecrease]_vars

\* Two responses with tool calls have been received, with different token
\* counts.
C18_Witness ==
    /\ Len(lresponses) = 2
    /\ lresponses[1].ok /\ lresponses[2].ok
    /\ lresponses[1].ncalls > 0
    /\ lresponses[2].ncalls > 0
    /\ lresponses[1].usage.input # lresponses[2].usage.input
    /\ lusage.llmCalls = 2

\* The result entries of the conversation for the tool calls of response k
\* that carry an error.
ErrorEntries(k) ==
    {m \in 1..Len(lmessages) :
        /\ lmessages[m].kind = "tool"
        /\ lmessages[m].resp = k
        /\ lmessages[m].error}

\* C19: the agent loop holds one record per turn that executed tools, in
\* turn order, each with the number of tool calls of that turn and the
\* number of those whose result carries an error, never more than the calls.
C19_OneRecordPerToolTurn ==
    lkind = "agent" =>
        /\ Len(lsteps) = lturn
        /\ \A k \in 1..Len(lsteps) :
            /\ lsteps[k].turn = k - 1
            /\ lsteps[k].toolCalls = lresponses[k].ncalls
            /\ lsteps[k].toolErrors = Cardinality(ErrorEntries(k))
            /\ lsteps[k].toolErrors <= lsteps[k].toolCalls

\* The calls of the first n responses, in order.
RECURSIVE CallsUpTo(_)
CallsUpTo(n) ==
    IF n = 0 THEN <<>>
    ELSE CallsUpTo(n - 1) \o
            [c \in 1..lresponses[n].ncalls |-> [resp |-> n, call |-> c]]

IsToolEntry(m) == m.kind = "tool"

\* The result entries of the conversation, in order.
ToolEntries == SelectSeq(lmessages, IsToolEntry)

\* C20: every call of every turn whose tools ran had its handler invoked, in
\* the order of the calls, whether or not another handler of the turn
\* failed, and the conversation holds one result entry per call in that
\* order, carrying the error exactly when the handler failed.
C20_EveryCallRunsAndAnswers ==
    /\ Len(linvoked) = Len(CallsUpTo(lturn))
    /\ Len(ToolEntries) = Len(linvoked)
    /\ ltoolRuns = Len(linvoked)
    /\ \A i \in 1..Len(linvoked) :
        /\ linvoked[i].resp = CallsUpTo(lturn)[i].resp
        /\ linvoked[i].call = CallsUpTo(lturn)[i].call
        /\ ToolEntries[i].resp = linvoked[i].resp
        /\ ToolEntries[i].call = linvoked[i].call
        /\ ToolEntries[i].error = linvoked[i].failed

\* In one turn the first handler failed and the second one ran and
\* succeeded; both have their entry.
C20_Witness ==
    \E i \in 1..(Len(linvoked) - 1) :
        /\ linvoked[i].failed
        /\ linvoked[i + 1].resp = linvoked[i].resp
        /\ ~linvoked[i + 1].failed
        /\ Len(ToolEntries) = Len(linvoked)

\* Number of model calls made so far.
ModelCalls == Len(lresponses)

\* C7: when the first response of the model has no tool calls, the loop has
\* made exactly one model call, has run no tool, is in DONE, and its final
\* answer is the text of that response.
C7_FirstResponseWithoutToolsEnds ==
    (ModelCalls >= 1 /\ lresponses[1].ok /\ lresponses[1].ncalls = 0) =>
        /\ lpc = "DONE"
        /\ ModelCalls = 1
        /\ ltoolRuns = 0
        /\ lmessages = <<>>
        /\ lresult.output = Text(lresponses[1].id)

\* C7 witness: a run of each loop whose first response carried no tool call.
C7_Witness ==
    /\ lkind = "agent"
    /\ ModelCalls = 1
    /\ lresponses[1].ok
    /\ lresponses[1].ncalls = 0
    /\ lpc = "DONE"
    /\ lresult.output = Text(1)

\* C8: a loop with turn budget M that is in MAX_TURNS_EXCEEDED has made
\* exactly M model calls, every one of them answered with tool calls, and
\* hands its caller the last response and the accumulated usage; no run makes
\* more than M model calls.
C8_MaxTurnsCarriesProgress ==
    /\ ModelCalls <= lmaxTurns
    /\ lpc = "MAX_TURNS_EXCEEDED" =>
        /\ ModelCalls = lmaxTurns
        /\ \A i \in 1..ModelCalls :
            lresponses[i].ok /\ lresponses[i].ncalls > 0
        /\ lresult.lastResponse = ModelCalls
        /\ lresult.usage = lusage

(***************************************************************************)
(* Claims about the output buffers of a custom tool                        *)
(***************************************************************************)
\* max_output_bytes in force for the call.
Cap == BuildMaxOutput(xentryMax)

\* Some stream was handed more bytes than the cap.
Overflowed == \E s \in Streams : xwritten[s] > Cap

\* C9: after any sequence of writes the captured length is at most the cap
\* and the captured bytes are a prefix of the stream; once more bytes were
\* written than the cap, the captured length is exactly the cap, the captured
\* bytes are the first cap bytes of the stream, and truncated is set.
C9_BufferCap ==
    xpc \in {"running", "done"} =>
        \A s \in Streams :
            /\ Len(xbuf[s].buf) <= Cap
            /\ \A i \in 1..Len(xbuf[s].buf) : xbuf[s].buf[i] = i
            /\ xwritten[s] > Cap =>
                /\ Len(xbuf[s].buf) = Cap
                /\ xbuf[s].buf = Chunk(0, Cap)
                /\ xbuf[s].truncated

\* C9 witness: a stream filled by one write and overrun by a later one.
C9_Witness ==
    /\ xlast.stream = "stdout"
    /\ xlast.before = Cap
    /\ xlast.len > 0
    /\ xwritten["stdout"] > Cap
    /\ xbuf["stdout"].buf = Chunk(0, Cap)
    /\ xbuf["stdout"].truncated

\* The last Write would have taken its buffer past the cap.
LastWritePastCap ==
    xlast.stream # "" /\ xlast.before + xlast.len > Cap

C10_Safety ==
    /\ LastWritePastCap =>
        /\ xctx # "active"
        /\ xbuf[xlast.stream].truncated
    /\ xlast.stream # "" =>
        /\ xlast.n = xlast.len
        /\ xlast.before = Cap => Len(xbuf[xlast.stream].buf) = Cap
    /\ (xres.returned /\ Overflowed) =>
        xres.outputTruncated

\* C10: a write that would take the stdout or the stderr buffer past the cap
\* leaves the context cancelled (or already expired) and the buffer marked
\* truncated; every write is acknowledged in full, and a write to a full
\* buffer stores nothing; the result of a call with an overrun stream has
\* output_truncated set; and after an overrun the process does not keep
\* running: it is killed unless it has ended by itself.
C10_OverflowCancels ==
    /\ []C10_Safety
    /\ (Overflowed ~> xproc # "running")

\* C10 witness: stderr overran while the process was running and the context
\* was active, the process was killed, and the result reports the truncation.
C10_Witness ==
    /\ xres.returned
    /\ xres.outputTruncated
    /\ xwritten["stderr"] > Cap
    /\ xwritten["stdout"] <= Cap
    /\ xlast.stream = "stderr"
    /\ xlast.ctxBefore = "active"
    /\ xproc = "killed"
    /\ ~xres.timedOut

\* The result of a call whose context ended by its deadline says timed_out,
\* the call itself returns no error, and the process is not left running.
C21_Safety ==
    xres.returned =>
        /\ xres.timedOut <=> (xctx = "deadline")
        /\ ~xres.callErr
        /\ xproc # "running"

\* C21: when the deadline passes while the process runs, the process is
\* killed (unless it ends by itself first), and the call returns a result
\* with timed_out set and no error: the timeout is a result, not a failure.
C21_TimeoutIsResult ==
    /\ []C21_Safety
    /\ ((xctx = "deadline" /\ xproc = "running") ~>
            xproc \in {"killed", "exited"})

\* The deadline passed, the process was killed, and the call returned its
\* result with timed_out set and without an error.
C21_Witness ==
    /\ xres.returned
    /\ xres.timedOut
    /\ ~xres.callErr
    /\ xproc = "killed"
    /\ ~xres.outputTruncated

\* C22: exit code 0 and no error string on success; exit code -1 and an
\* error string when the failure is not a process exit; the real exit code
\* and no error string on a normal non-zero exit.
C22_ExitCodeAndError ==
    xres.returned =>
        /\ (xproc = "exited" /\ xexit = 0) =>
                (xres.exitCode = 0 /\ ~xres.error)
        /\ xproc = "failed" =>
                (xres.exitCode = 0 - 1 /\ xres.error)
        /\ (xproc = "exited" /\ xexit # 0) =>
                (xres.exitCode = xexit /\ ~xres.error)

\* C23: once the context of the run is cancelled, the process of a custom
\* tool in flight does not go on under a live context of its own: its
\* context is done too, so that the process is terminated.
C23_RunCancelStopsProcess ==
    (xrun = "canceled" /\ xpc = "running" /\ xproc = "running") =>
        xctx # "active"

(***************************************************************************)
(* Claims about the authorization of bash commands                         *)
(***************************************************************************)
\* The allow rules and the deny rules the run was configured with.
AllowRuleSet == parseBashRules(bflags.allow).rules
DenyRuleSet == parseBashRules(bflags.deny).rules

\* C3: a command is authorized if and only if allowAll is set or it matches
\* some allow rule, and it matches no deny rule; so a command matching a deny
\* rule is rejected whatever the allow rules and allowAll are, and without
\* allowAll a command matching no allow rule is rejected.
C3_AuthorizeIff ==
    bdecision.asked =>
        LET c == bdecision.cmd
        IN  /\ bdecision.allowed <=>
                    /\ bflags.allowAll \/ MatchesAny(AllowRuleSet, c)
                    /\ ~MatchesAny(DenyRuleSet, c)
            /\ MatchesAny(DenyRuleSet, c) => ~bdecision.allowed
            /\ (~bflags.allowAll /\ ~MatchesAny(AllowRuleSet, c)) =>
                    ~bdecision.allowed

\* C3 witness: with allowAll set, a command that matches an allow rule and a
\* deny rule was asked about and rejected.
C3_Witness ==
    /\ bdecision.asked
    /\ bflags.allowAll
    /\ MatchesAny(AllowRuleSet, bdecision.cmd)
    /\ MatchesAny(DenyRuleSet, bdecision.cmd)
    /\ ~bdecision.allowed

\* The kind marker an entry starts with, as the kind of rule it asks for; an
\* entry without marker asks for a Prefix rule.
MarkKind(entry) ==
    IF HasPrefix(entry, ExactMark) THEN "Exact"
    ELSE IF HasPrefix(entry, RegexpMark) THEN "Regexp"
    ELSE "Prefix"

HasMark(entry) ==
    \/ HasPrefix(entry, ExactMark)
    \/ HasPrefix(entry, RegexpMark)
    \/ HasPrefix(entry, PrefixMark)

\* What follows the kind marker of an entry.
RuleValue(entry) ==
    IF HasPrefix(entry, ExactMark) THEN TrimPrefix(entry, ExactMark)
    ELSE IF HasPrefix(entry, RegexpMark)
    THEN TrimSpace(TrimPrefix(entry, RegexpMark))
    ELSE IF HasPrefix(entry, PrefixMark) THEN TrimPrefix(entry, PrefixMark)
    ELSE entry

\* An entry that must not parse: its value is empty, or it is a regexp that
\* does not compile.
InvalidEntry(entry) ==
    \/ RuleValue(entry) = <<>>
    \/ MarkKind(entry) = "Regexp" /\ ~RegexpCompiles(RuleValue(entry))

\* The two rule lists of the configuration.
RuleFlags == {bflags.allow, bflags.deny}

\* C28: once the bash tool has been configured, a list with a regexp that
\* does not compile or with a rule of empty value (exact:, prefix: or
\* regexp: followed by nothing) has been refused, and no rule of the pack
\* has an empty value.
C28_InvalidRuleRefused ==
    bpc # "init" =>
        /\ \A values \in RuleFlags :
            LET flat == splitCSVValues(values)
            IN  (\E i \in 1..Len(flat) : InvalidEntry(flat[i])) =>
                    /\ parseBashRules(values).err # ""
                    /\ bpc = "configError"
        /\ \A i \in 1..Len(bpack.allow) : bpack.allow[i].text # <<>>
        /\ \A i \in 1..Len(bpack.deny) : bpack.deny[i].text # <<>>

\* C29: a list that parses gives one rule per non-blank entry, in the order
\* of the entries: Exact after exact:, Prefix after prefix:, Regexp after
\* regexp:, and a Prefix rule over the whole entry when it has no marker;
\* these are the rules the pack is built with.
C29_OneRulePerEntry ==
    /\ \A values \in RuleFlags :
        LET flat == splitCSVValues(values)
            parsed == parseBashRules(values)
        IN  parsed.err = "" =>
                /\ Len(parsed.rules) = Len(flat)
                /\ \A i \in 1..Len(flat) :
                    /\ parsed.rules[i].kind = MarkKind(flat[i])
                    /\ parsed.rules[i].text = RuleValue(flat[i])
                    /\ ~HasMark(flat[i]) =>
                            parsed.rules[i] = Rule("Prefix", flat[i])
    /\ bpc = "ready" =>
        /\ bpack.allow = parseBashRules(bflags.allow).rules
        /\ bpack.deny = parseBashRules(bflags.deny).rules

\* The pack was built from an allow value of two entries, the first without
\* marker, and a deny value with the exact: marker.
C29_Witness ==
    /\ bpc = "ready"
    /\ Len(bpack.allow) = 2
    /\ bpack.allow[1] = Rule("Prefix", <<"r">>)
    /\ bpack.allow[2] = Rule("Prefix", <<"g", " ", "s">>)
    /\ Len(bpack.deny) = 1
    /\ bpack.deny[1].kind = "Exact"

(***************************************************************************)
(* Claims about the set-up of an agent loop run                            *)
(***************************************************************************)
\* The tools the flags enable.
Enabled(flags, names) == \E i \in 1..Len(flags.tools) : flags.tools[i] \in names

BashOn(flags) == Enabled(flags, {"bash"})
TasksOn(flags) == Enabled(flags, {"tasks", "tasks_write"})
FSOn(flags) == Enabled(flags, {"fs"})

\* The names of the built-in tools the flags enable.
BuiltinNames(flags) ==
    (IF BashOn(flags) THEN {ToolNameBash} ELSE {})
        \cup (IF TasksOn(flags) THEN {toolNameTasksWrite} ELSE {})
        \cup (IF FSOn(flags)
              THEN {fsToolDefinitions[i] : i \in 1..Len(fsToolDefinitions)}
              ELSE {})

\* A custom tool has the name of an enabled built-in tool or of another
\* custom tool.
DuplicateToolName(flags) ==
    \/ \E i \in 1..Len(flags.custom) : flags.custom[i] \in BuiltinNames(flags)
    \/ \E i, j \in 1..Len(flags.custom) :
        i # j /\ flags.custom[i] = flags.custom[j]

\* The configuration faults: an unknown tool or none at all, options for a
\* tool that is not enabled, an invalid rule or a bash tool without any
\* permission, an invalid fs option, a duplicate tool name, --state-id
\* together with --state-ttl-sec.
ConfigFault(flags) ==
    \/ \E i \in 1..Len(flags.tools) :
        flags.tools[i] \notin {"bash", "tasks", "tasks_write", "fs"}
    \/ Len(flags.tools) = 0 /\ Len(flags.custom) = 0
    \/ /\ ~BashOn(flags)
       /\ \/ flags.bashAllowAll
          \/ flags.bashAllow # <<>>
          \/ flags.bashDeny # <<>>
    \/ ~TasksOn(flags) /\ flags.printTasks
    \/ ~FSOn(flags) /\ flags.fsConfig # "none"
    \/ /\ BashOn(flags)
       /\ \/ parseBashRules(flags.bashAllow).err # ""
          \/ parseBashRules(flags.bashDeny).err # ""
          \/ ~flags.bashAllowAll /\ flags.bashAllow = <<>>
    \/ FSOn(flags) /\ flags.fsConfig = "bad timeout"
    \/ DuplicateToolName(flags)
    \/ flags.stateID # "" /\ flags.stateTTLSeconds > 0

C27_State ==
    /\ gcalls > 0 => ~ConfigFault(gflags)
    /\ gpc = "aborted" => (gcalls = 0 /\ gerr # "")
    /\ (ConfigFault(gflags) /\ gpc \notin {"start", "tools", "built"}) =>
        gpc = "aborted"

NoRepeat(q) == \A i, j \in 1..Len(q) : i # j => q[i] # q[j]

\* The names registered in the registry, in the order of registration.
RegisteredNames == [i \in 1..Len(gregistry) |-> gregistry[i].name]

\* C30: no name occurs twice among the tool definitions, nor among the
\* registrations (so no handler replaces an earlier one); a run whose tools
\* would repeat a name is aborted, and the duplicate-tool error is raised
\* only for such a run.
C30_UniqueToolNames ==
    /\ NoRepeat(gdefs)
    /\ NoRepeat(RegisteredNames)
    /\ (DuplicateToolName(gflags) /\ gpc \notin {"start", "tools"}) =>
        (gpc = "aborted" /\ gcalls = 0)
    /\ gerr = "duplicate tool name" => DuplicateToolName(gflags)
    /\ gpc \in {"built", "resolved", "called"} =>
        /\ Len(gdefs) = Len(gregistry)
        /\ \A i \in 1..Len(gdefs) : gdefs[i] = RegisteredNames[i]

\* A custom tool called bash, after another custom tool, was refused as a
\* duplicate of the built-in: the bash pack and the first custom tool are
\* registered, the second is not.
C30_Witness ==
    /\ gerr = "duplicate tool name"
    /\ gflags.custom = <<"x", "bash">>
    /\ RegisteredNames = <<"bash", "x">>
    /\ gdefs = <<>>

(***************************************************************************)
(* Claims about the start of a run that may use the bash tool              *)
(***************************************************************************)
\* The agent loop run has the bash tool and a permission for it: allow-all
\* or at least one allow rule.
AgentBashPermitted ==
    \/ gflags.bashAllowAll
    \/ Len(parseBashRules(gflags.bashAllow).rules) > 0

\* The run of mrl do has a permission for the bash tool.
DoBashPermitted == dopts.allowAll \/ Len(dopts.allow) > 0

\* C31: the bash tool is deny-by-default.  An agent loop run whose bash tool
\* is enabled (by --tool, by the manifest's tools or by its [bash] section)
\* gets past buildAgentLoopTools, and so to a model call, only with
\* allow-all or at least one allow rule, whether they come from the flags
\* or from the manifest; a run of mrl do gets past its permission check
\* only with allow-all or an allow entry of the flags or of the config.
\* Without them the run is aborted with no model call made, and the bash
\* tool is never registered.
C31_DenyByDefault ==
    /\ (BashOn(gflags) /\ gpc \in {"built", "resolved", "called"}) =>
        AgentBashPermitted
    /\ (BashOn(gflags) /\ gcalls > 0) => AgentBashPermitted
    /\ (\E i \in 1..Len(gregistry) : gregistry[i].name = ToolNameBash) =>
        AgentBashPermitted
    /\ dpc \in {"permitted", "called", "done"} =>
        /\ DoBashPermitted
        /\ dflags.allowAll \/ dflags.cfgAllowAll
           \/ dflags.allow # <<>> \/ dflags.cfgAllow # <<>>
    /\ dcalls > 0 => (dopts.allowAll \/ Len(dopts.rules) > 0)
    /\ (gerr = "bash tool requires --bash-allow or --bash-allow-all"
        \/ derr = "bash permissions required") =>
            gcalls = 0 /\ dcalls = 0

\* The [bash] section of a manifest enabled the bash tool, neither the
\* flags nor the manifest gave a permission, and the run was aborted
\* before any model call.
C31_Witness ==
    /\ gpc = "aborted"
    /\ gerr = "bash tool requires --bash-allow or --bash-allow-all"
    /\ manifest.Bash # <<>>
    /\ "tool" \notin mchanged
    /\ BashOn(gflags)
    /\ gcalls = 0

\* What the manifest gives for flag k.
ManifestGives(k) ==
    CASE k = "tool" ->
            IF manifest.Tools # <<>> THEN manifest.Tools
            ELSE inferredTools(manifest)
      [] k = "tool-root" -> TrimSpace(manifest.ToolRoot)
      [] k = "state-id" -> TrimSpace(manifest.StateID)
      [] k = "state-ttl-sec" -> manifest.StateTTLSeconds[1]
      [] k = "bash-allow" -> manifest.Bash[1].Allow
      [] k = "bash-deny" -> manifest.Bash[1].Deny
      [] k = "bash-allow-all" -> manifest.Bash[1].AllowAll[1]
      [] k = "bash-timeout" ->
            ParseDuration(TrimSpace(manifest.Bash[1].Timeout)).dur
      [] k = "bash-max-output-bytes" -> manifest.Bash[1].MaxOutputBytes[1]
      [] k = "tasks-output" -> TrimSpace(manifest.TasksWrite[1].Output)
      [] k = "print-tasks" -> manifest.TasksWrite[1].PrintTasks[1]

\* C32: flags override the manifest.  Once applyToolManifest has run, every
\* flag that was set on the command line still has the value the command
\* line gave it, and a flag whose value differs from the command line's
\* was not set there and has the manifest's value.
C32_FlagsOverrideManifest ==
    gpc \notin {"off", "load"} =>
        \A k \in Settings :
            /\ k \in mchanged => mflags[k] = mcli[k]
            /\ mflags[k] # mcli[k] =>
                (k \notin mchanged /\ mflags[k] = ManifestGives(k))

\* --bash-allow-all=false on the command line and allow_all = true in the
\* manifest: the manifest was applied and the flag is still false.
C32_Witness ==
    /\ gpc \notin {"off", "load"}
    /\ "bash-allow-all" \in mchanged
    /\ mcli["bash-allow-all"] = FALSE
    /\ manifest.Bash # <<>>
    /\ manifest.Bash[1].AllowAll = <<TRUE>>
    /\ mflags["bash-allow-all"] = FALSE

(***************************************************************************)
(* Claims about the tasks_write tool                                       *)
(***************************************************************************)
\* The arguments are a task list in which every task has a content that is
\* not blank and one of the three statuses.
ValidCall(args) ==
    /\ args.decodes
    /\ \A i \in 1..Len(args.Tasks) :
        /\ \E j \in 1..Len(args.Tasks[i].Content) :
            args.Tasks[i].Content[j] # " "
        /\ args.Tasks[i].Status \in {"pending", "in_progress", "completed"}

ValidCalls == {i \in 1..Len(tcalls) : ValidCall(tcalls[i])}

\* The list of the last valid call so far; empty before the first.
LastValidList ==
    IF ValidCalls = {} THEN <<>>
    ELSE tcalls[CHOOSE i \in ValidCalls : \A j \in ValidCalls : j <= i].Tasks

\* C33: after any sequence of tasks_write calls the stored list is the list
\* of the last call whose arguments were valid (so a call with a task of
\* blank content or of a status other than pending, in_progress and
\* completed leaves the list as it was, and a valid call replaces all of
\* it), and a call that was not valid returned an error.
C33_LastValidListStored ==
    /\ tasks = LastValidList
    /\ (tcalls # <<>> /\ ~ValidCall(tcalls[Len(tcalls)])) =>
        (~tres.ok /\ tres.err # "")

\* A valid call with two tasks, then a call with a blank task: the error
\* was returned and the two tasks of the first call are still stored.
C33_Witness ==
    /\ Len(tcalls) = 2
    /\ ValidCall(tcalls[1])
    /\ Len(tcalls[1].Tasks) = 2
    /\ ~ValidCall(tcalls[2])
    /\ tcalls[2].decodes
    /\ tres.err = "task content is required"
    /\ tasks = tcalls[1].Tasks

(***************************************************************************)
(* Claims about the end of an RLM run                                      *)
(***************************************************************************)
\* C34: every code session started during a run is closed exactly once by
\* the time runLocalRLMLoop has returned, whatever the way it returned
\* (success, model call error, empty response, done-marker parse error,
\* replacement session that does not start or whose set-up fails, budget
\* exhausted), and no session is ever closed twice.
C34_SessionsClosedOnce ==
    /\ \A s \in 1..Len(sessCloses) : sessCloses[s] <= 1
    /\ rpc = "returned" =>
        \A s \in 1..Len(sessCloses) : sessCloses[s] = 1

\* A replacement session was started and its set-up failed: the run
\* returned the error with the replacement and the session it was to
\* replace both closed once.
C34_Witness ==
    /\ rpc = "returned"
    /\ rresult.err = "session setup"
    /\ Len(sessCloses) = 2
    /\ execLog # <<>>
    /\ \A s \in 1..2 : sessCloses[s] = 1

\* The requests the server accepted: they passed the checks on arrival and
\* the limit check after the counter.
AcceptedRequests ==
    {h \in Handlers :
        /\ hcurrent[h] > 0
        /\ hpc[h] # "limit"
        /\ ~(maxSubcalls >= 0 /\ hcurrent[h] > maxSubcalls)}

\* C35: the Subcalls of the result of a successful run is the number of
\* subcall requests the server accepted, and so is at most max_subcalls,
\* also when requests arrived after the budget was used up.
C35_SubcallsCountsAccepted ==
    rresult.status = "ok" =>
        /\ rresult.result.subcalls <= maxSubcalls
        /\ (\A h \in Handlers : hpc[h] \in {"idle", "done"}) =>
            rresult.result.subcalls = Cardinality(AcceptedRequests)

\* The last execution signalled completion: its done marker parsed and
\* carried an answer.
CompletionSignalled == execLog # <<>> /\ iterOut.done /\ ~iterOut.parseErr

Counted == {h \in Handlers : hpc[h] = "unlock" \/ hcurrent[h] > 0}

\* The requests that passed the limit check, whatever their answer.
Admitted ==
    {h \in Counted : hpc[h] \in {"call", "usage", "done"}
                     /\ ~LimitExceeded(hcurrent[h], maxSubcalls)}

C37_BudgetConsumed ==
    /\ counter = Cardinality(Counted)
    /\ \A h \in Handlers : hstatus[h] = StatusBadGateway => h \in Admitted
    /\ Cardinality(Admitted) <= IF maxSubcalls < 0 THEN 0 ELSE maxSubcalls
    /\ \A h \in Handlers :
        (hpc[h] = "done" /\ hcurrent[h] > 0) =>
            (hstatus[h] = StatusConflict <=> hcurrent[h] > maxSubcalls)
    /\ \A h, g \in Counted :
        (hcurrent[h] > 0 /\ hcurrent[h] = hcurrent[g]) => h = g

\* C37: the subcall counter never decreases and is never rolled back: every
\* request that reached it holds one unit for good, a 502 answer included,
\* so at most max_subcalls requests are admitted and every request counted
\* after them is answered 409.
C37_CounterNeverRolledBack ==
    /\ [][counter' >= counter]_vars
    /\ []C37_BudgetConsumed

\* The whole budget went to subcalls that failed with 502, and a later
\* request was rejected with 409.
C37_Witness ==
    /\ maxSubcalls >= 1
    /\ Cardinality(Admitted) = maxSubcalls
    /\ \A h \in Admitted : hstatus[h] = StatusBadGateway
    /\ \E h \in Handlers :
        hpc[h] = "done" /\ hcurrent[h] > maxSubcalls
        /\ hstatus[h] = StatusConflict

\* A step in which a buffer is marked truncated for the first time.
FirstOverflow ==
    \E s \in Streams : ~xbuf[s].truncated /\ xbuf'[s].truncated

\* ctx.Err() is settled by whichever comes first, the deadline or a cancel:
\* a done context keeps its error, and an overflow on an active context
\* cancels it.
FirstEventWins ==
    /\ xctx = "canceled" => xctx' = "canceled"
    /\ xctx = "deadline" => xctx' = "deadline"
    /\ (FirstOverflow /\ xctx = "active") => xctx' = "canceled"
    /\ (xctx = "active" /\ xctx' = "canceled" /\ xpc' = "running") =>
        FirstOverflow

C38_Result ==
    xres.returned =>
        /\ xres.timedOut <=> xctx = "deadline"
        /\ xres.outputTruncated <=> \E s \in Streams : xbuf[s].truncated
        /\ (xres.outputTruncated /\ xctx = "canceled") => ~xres.timedOut
        /\ xres.timedOut => xproc \in {"killed", "exited", "failed"}
        /\ xres.outputTruncated => xproc \in {"killed", "exited"}
        /\ ~xres.callErr

\* C38: timed_out is set only when the deadline passed before any overflow
\* cancelled the context: an overflow that cancels first gives
\* output_truncated without timed_out, a deadline that passes first gives
\* timed_out (also when output overruns afterwards); either way the process
\* does not keep running and the call returns a result, not an error.
C38_FirstOfDeadlineAndOverflow ==
    /\ [][FirstEventWins]_vars
    /\ []C38_Result
    /\ ((xpc = "running" /\ xctx \in {"canceled", "deadline"}) ~>
            xproc # "running")

\* stdout overran while the context was active, the process was killed, and
\* the call returned a result with output_truncated and without timed_out.
C38_Witness ==
    /\ xres.returned
    /\ xbuf["stdout"].truncated
    /\ ~xbuf["stderr"].truncated
    /\ xres.outputTruncated
    /\ ~xres.timedOut
    /\ ~xres.callErr
    /\ xctx = "canceled"
    /\ xproc = "killed"

====
